---- MODULE Spec2Model ----
(***************************************************************************)
(* A model of gavagai's interpretation pipeline: the adapter registry,      *)
(* the Anthropic adapter, the orchestration function interpret with its    *)
(* JSON extraction, the zod response schema, parseResponse and validate,   *)
(* the system prompt and the option merging of GavagaiClient.              *)
(*                                                                         *)
(* Texts are sequences of one-character strings.  A JSON document is the   *)
(* three characters "{", b, "}" where the single symbol b stands for the   *)
(* members of the object (DocValue gives the value JSON.parse builds).     *)
(***************************************************************************)
EXTENDS Integers, Sequences, FiniteSets, TLC

VARIABLES
    adapters,   \* the registry: a Map, kept as its entries in insertion order
    written,    \* per provider id: what the callers last registered, if still wanted
    pc,         \* per interpret call: idle, awaiting, settled or done
    asked,      \* per call: model.provider, the provider it was called for
    bound,      \* per call: the adapter object whose complete() it invoked
    settled,    \* per call: how the promise of complete() settled
    result,     \* per call: how the promise of interpret settled
    trace,      \* per call: the steps of interpret that ran, in order
    raw,        \* extraction harness: the text handed to extractJson
    extracted,  \* extraction harness: what extractJson returned for raw
    vResponse,  \* validation harness: the response value under test
    vOntology,  \* validation harness: the ontology handed to validate
    wire,       \* validation harness: the text handed to the parsers
    strict,     \* validation harness: how parseResponse(wire) ended
    safe,       \* validation harness: how safeParseResponse(wire) ended
    again,      \* validation harness: the parsed response, written and parsed again
    report,     \* validation harness: how validate(vResponse, vOntology) ended
    vProp,      \* the proposition handed to shouldAutoExecute
    auto,       \* what shouldAutoExecute(vProp) returned
    vDefaults,  \* prompt harness: the defaultOptions of the GavagaiClient
    vOptions,   \* prompt harness: the options of the call
    vToday,     \* prompt harness: the day the clock shows
    built,      \* prompt harness: the prompt that was built for the caller
    sent        \* prompt harness: the prompt complete() was called with

vars == <<adapters, written, pc, asked, bound, settled, result, trace, raw, extracted,
          vResponse, vOntology, wire, strict, safe, again, report, vProp, auto,
          vDefaults, vOptions, vToday, built, sent>>

callVars == <<pc, asked, bound, settled, result, trace>>

harnessVars == <<raw, extracted>>

checkVars == <<vResponse, vOntology, wire, strict, safe, again, report>>

toolVars == <<vProp, auto, vDefaults, vOptions, vToday, built, sent>>

promptVars == <<vDefaults, vOptions, vToday, built, sent>>

(***************************************************************************)
(* Bounds                                                                  *)
(***************************************************************************)
\* Longest text, in tokens, that the extraction harness enumerates.
MaxTokens == 5

(***************************************************************************)
(* Text helpers                                                            *)
(***************************************************************************)
\* The backtick character (a backtick cannot be written in a string here).
Tick == "'"

\* The characters JavaScript's \s and String.prototype.trim treat as blank.
Whitespace == {" "}

Min(S) == CHOOSE x \in S : \A y \in S : x <= y

Max(S) == CHOOSE x \in S : \A y \in S : x >= y

\* String.prototype.trim: drop the blanks at both ends, keep the rest.
Trim(s) ==
    LET solid == {i \in 1..Len(s) : s[i] \notin Whitespace}
    IN  IF solid = {} THEN <<>> ELSE SubSeq(s, Min(solid), Max(solid))

\* The concatenation of a sequence of sequences.
RECURSIVE Flatten(_)
Flatten(ts) == IF ts = <<>> THEN <<>> ELSE Head(ts) \o Flatten(Tail(ts))

\* The literal ``` of the code-block pattern matches at position i.
FenceAt(s, i) ==
    /\ i >= 1
    /\ i + 2 <= Len(s)
    /\ s[i] = Tick /\ s[i + 1] = Tick /\ s[i + 2] = Tick

\* The literal json of the optional group (?:json)? matches at position i.
TagAt(s, i) ==
    /\ i >= 1
    /\ i + 3 <= Len(s)
    /\ s[i] = "j" /\ s[i + 1] = "s" /\ s[i + 2] = "o" /\ s[i + 3] = "n"

\* Length of the run of blanks that starts at position i (what \s* can eat).
BlankRun(s, i) ==
    LET stops == {k \in i..Len(s) : s[k] \notin Whitespace}
    IN  IF stops = {} THEN Len(s) + 1 - i ELSE Min(stops) - i

NoMatch == [matched |-> FALSE, group |-> <<>>]

\* The rest of the code-block pattern, \s*([\s\S]*?)```, tried at position p:
\* \s* is greedy (longest run first, backing off one blank at a time), the
\* group is lazy (shortest first), and the first combination that reaches a
\* closing ``` is the match.
MatchTail(s, p) ==
    LET widths == {k \in 0..BlankRun(s, p) :
                      \E j \in (p + k)..Len(s) : FenceAt(s, j)}
    IN  IF widths = {} THEN NoMatch
        ELSE LET k == Max(widths)
                 j == Min({x \in (p + k)..Len(s) : FenceAt(s, x)})
             IN  [matched |-> TRUE, group |-> SubSeq(s, p + k, j - 1)]

\* The whole pattern /```(?:json)?\s*([\s\S]*?)```/ tried at start i: the
\* optional tag is taken when present, and given up only if the rest fails.
MatchAt(s, i) ==
    IF ~FenceAt(s, i) THEN NoMatch
    ELSE IF TagAt(s, i + 3) /\ MatchTail(s, i + 7).matched
         THEN MatchTail(s, i + 7)
         ELSE MatchTail(s, i + 3)

\* raw.match(/```(?:json)?\s*([\s\S]*?)```/): the leftmost start that matches.
CodeBlockMatch(s) ==
    LET starts == {i \in 1..Len(s) : MatchAt(s, i).matched}
    IN  IF starts = {} THEN NoMatch ELSE MatchAt(s, Min(starts))

\* Mutant of JsonMatch: a lazy scan, which stops at the first "}".
JsonMatchLazy(s) ==
    LET starts == {i \in 1..Len(s) :
                      s[i] = "{" /\ \E j \in (i + 1)..Len(s) : s[j] = "}"}
    IN  IF starts = {} THEN NoMatch
        ELSE LET i == Min(starts)
                 j == Min({x \in (i + 1)..Len(s) : s[x] = "}"})
             IN  [matched |-> TRUE, group |-> SubSeq(s, i, j)]

\* raw.match(/\{[\s\S]*\}/): leftmost "{", then greedily to the last "}".
JsonMatch(s) ==
    LET starts == {i \in 1..Len(s) :
                      s[i] = "{" /\ \E j \in (i + 1)..Len(s) : s[j] = "}"}
    IN  IF starts = {} THEN NoMatch
        ELSE LET i == Min(starts)
                 j == Max({x \in (i + 1)..Len(s) : s[x] = "}"})
             IN  [matched |-> TRUE, group |-> SubSeq(s, i, j)]

\* Mutant of extractJson: the brace span is tried before the code block.
extractJsonBraceFirst(s) ==
    LET codeBlockMatch == CodeBlockMatch(s)
        jsonMatch == JsonMatch(s)
    IN  IF jsonMatch.matched /\ jsonMatch.group # <<>>
        THEN jsonMatch.group
        ELSE IF codeBlockMatch.matched /\ codeBlockMatch.group # <<>>
             THEN Trim(codeBlockMatch.group)
             ELSE Trim(s)

\* extractJson, with JavaScript's truthiness: an empty string is falsy, so
\* "if (codeBlockMatch?.[1])" is not taken for an empty group.
extractJson(s) ==
    LET codeBlockMatch == CodeBlockMatch(s)
        jsonMatch == JsonMatch(s)
    IN  IF codeBlockMatch.matched /\ codeBlockMatch.group # <<>>
        THEN Trim(codeBlockMatch.group)
        ELSE IF jsonMatch.matched /\ jsonMatch.group # <<>>
             THEN jsonMatch.group
             ELSE Trim(s)

(***************************************************************************)
(* JSON values, tagged with their JavaScript type                          *)
(***************************************************************************)
Str(x) == [t |-> "string", v |-> x]

Bool(b) == [t |-> "boolean", v |-> b]

Arr(xs) == [t |-> "array", v |-> xs]

Obj(f) == [t |-> "object", v |-> f]

Null == [t |-> "null", v |-> "null"]

\* undefined: the value of a key that is not there, or that was set to it.
Undef == [t |-> "undefined", v |-> "undefined"]

Has(o, k) == o.t = "object" /\ k \in DOMAIN o.v

\* The object o cut down to the keys in ks.
Pick(o, ks) == Obj([k \in (DOMAIN o.v \cap ks) |-> o.v[k]])

\* The object o without key k.
Without(o, k) == Obj([j \in (DOMAIN o.v \ {k}) |-> o.v[j]])

\* The object o with key k set to x.
With(o, k, x) == Obj([j \in (DOMAIN o.v \cup {k}) |-> IF j = k THEN x ELSE o.v[j]])

(***************************************************************************)
(* The response schema (zod).  Each parser returns [ok, value, issues]:    *)
(* value is zod's output (unknown keys stripped, defaults applied) when    *)
(* ok, issues are zod's issues (path and message) when not.                *)
(***************************************************************************)
\* Array indices as they appear in an issue's path.
IndexNames == <<"0", "1", "2", "3", "4", "5", "6", "7", "8", "9">>

Issue(path, message) == [path |-> path, message |-> message]

\* invalid_type: "Required" for undefined, else "Expected E, received R".
InvalidType(expected, x) ==
    IF x.t = "undefined" THEN <<Issue(<<>>, <<"Required">>)>>
    ELSE <<Issue(<<>>, <<"Expected ", expected, ", received ", x.t>>)>>

\* The issues of a member or element, their paths put under key k.
Under(k, issues) ==
    [j \in 1..Len(issues) |-> Issue(<<k>> \o issues[j].path, issues[j].message)]

Fail(issues) == [ok |-> FALSE, value |-> Null, issues |-> issues]

Pass(x) == [ok |-> TRUE, value |-> x, issues |-> <<>>]

\* z.string()
StringParse(x) == IF x.t = "string" THEN Pass(x) ELSE Fail(InvalidType("string", x))

\* z.boolean()
BooleanParse(x) == IF x.t = "boolean" THEN Pass(x) ELSE Fail(InvalidType("boolean", x))

\* z.record(z.unknown()): any object, every key kept.
RecordParse(x) == IF x.t = "object" THEN Pass(x) ELSE Fail(InvalidType("object", x))

\* schema.optional(): undefined is let through, r is the schema's result.
Optional(x, r) == IF x.t = "undefined" THEN Pass(x) ELSE r

\* The elements of an array, the keys of an object; none for other values.
Elems(x) == IF x.t = "array" THEN x.v ELSE <<>>

KeysOf(x) == IF x.t = "object" THEN DOMAIN x.v ELSE {}

\* data[key]: undefined for a key the object does not have.
Member(x, k) == IF k \in KeysOf(x) THEN x.v[k] ELSE Undef

\* z.array(element): rs holds the element schema's result for each element;
\* the issues of all elements are collected.
ArrayParse(x, rs) ==
    LET issues == Flatten([i \in 1..Len(rs) |-> Under(IndexNames[i], rs[i].issues)])
    IN  IF x.t # "array" THEN Fail(InvalidType("array", x))
        ELSE IF issues # <<>> THEN Fail(issues)
        ELSE Pass(Arr([i \in 1..Len(rs) |-> rs[i].value]))

\* z.object(shape): rs holds, for every key of the shape, the result of that
\* key's schema on data[key].  The issues of all keys are collected in the
\* order of the shape; the output has the keys of the shape that the data
\* has or that parsed to something defined, and no other key.
ObjectParse(x, shape, rs) ==
    LET issues == Flatten([i \in 1..Len(shape) |-> Under(shape[i], rs[shape[i]].issues)])
        kept == {k \in DOMAIN rs : k \in KeysOf(x) \/ rs[k].value.t # "undefined"}
    IN  IF x.t # "object" THEN Fail(InvalidType("object", x))
        ELSE IF issues # <<>> THEN Fail(issues)
        ELSE Pass(Obj([k \in kept |-> rs[k].value]))

StringArrayParse(x) ==
    ArrayParse(x, [i \in 1..Len(Elems(x)) |-> StringParse(Elems(x)[i])])

\* Mutant of AmbiguityField: alternatives is optional without a default.
AmbiguityFieldNoDefault(k, x) ==
    IF k = "alternatives"
    THEN IF x.t = "undefined" THEN Pass(x) ELSE StringArrayParse(x)
    ELSE StringParse(x)

\* alternatives: z.array(z.string()).optional().default([])
AmbiguityField(k, x) ==
    IF k = "alternatives"
    THEN IF x.t = "undefined" THEN Pass(Arr(<<>>)) ELSE StringArrayParse(x)
    ELSE StringParse(x)

AmbiguitySchema(x) ==
    ObjectParse(x, <<"field", "reason", "alternatives">>,
        [k \in {"field", "reason", "alternatives"} |-> AmbiguityField(k, Member(x, k))])

\* One suggested option: {value, label}.
OptionSchema(x) ==
    ObjectParse(x, <<"value", "label">>,
        [k \in {"value", "label"} |-> StringParse(Member(x, k))])

UnresolvedField(k, x) ==
    IF k = "suggestedOptions"
    THEN Optional(x, ArrayParse(x, [i \in 1..Len(Elems(x)) |->
                                       OptionSchema(Elems(x)[i])]))
    ELSE StringParse(x)

UnresolvedItemSchema(x) ==
    ObjectParse(x, <<"originalRaw", "reason", "suggestedOptions">>,
        [k \in {"originalRaw", "reason", "suggestedOptions"} |->
            UnresolvedField(k, Member(x, k))])

NewEntityField(k, x) ==
    IF k = "canonicalId" THEN Optional(x, StringParse(x)) ELSE StringParse(x)

NewEntityProposalSchema(x) ==
    ObjectParse(x, <<"alias", "canonicalId", "entityType", "rationale">>,
        [k \in {"alias", "canonicalId", "entityType", "rationale"} |->
            NewEntityField(k, Member(x, k))])

GavagaiErrorField(k, x) ==
    IF k = "context" THEN Optional(x, RecordParse(x)) ELSE StringParse(x)

GavagaiErrorSchema(x) ==
    ObjectParse(x, <<"code", "message", "context">>,
        [k \in {"code", "message", "context"} |-> GavagaiErrorField(k, Member(x, k))])

\* Mutant of RecordSchema: originalRaw is optional.
RecordSchemaOptionalRaw(x) ==
    LET r == Optional(Member(x, "originalRaw"), StringParse(Member(x, "originalRaw")))
    IN  IF x.t # "object" THEN Fail(InvalidType("object", x))
        ELSE IF ~r.ok THEN Fail(Under("originalRaw", r.issues))
        ELSE Pass(x)

\* Mutant of RecordSchema: without passthrough, unknown keys are stripped.
RecordSchemaStrip(x) ==
    LET r == StringParse(Member(x, "originalRaw"))
    IN  IF x.t # "object" THEN Fail(InvalidType("object", x))
        ELSE IF ~r.ok THEN Fail(Under("originalRaw", r.issues))
        ELSE Pass(Pick(x, {"originalRaw"}))

\* record: z.object({originalRaw: z.string()}).passthrough() keeps every key.
RecordSchema(x) ==
    LET r == StringParse(Member(x, "originalRaw"))
    IN  IF x.t # "object" THEN Fail(InvalidType("object", x))
        ELSE IF ~r.ok THEN Fail(Under("originalRaw", r.issues))
        ELSE Pass(x)

\* Mutant of PropositionField: record is any object.
PropositionFieldAnyRecord(k, x) ==
    CASE k = "operation" -> StringParse(x)
      [] k = "needs_review" -> BooleanParse(x)
      [] k = "record" -> RecordParse(x)
      [] k = "items" ->
             Optional(x, ArrayParse(x, [i \in 1..Len(Elems(x)) |->
                                           RecordParse(Elems(x)[i])]))
      [] k = "ambiguities" ->
             Optional(x, ArrayParse(x, [i \in 1..Len(Elems(x)) |->
                                           AmbiguitySchema(Elems(x)[i])]))
      [] OTHER -> Optional(x, StringParse(x))

PropositionField(k, x) ==
    CASE k = "operation" -> StringParse(x)
      [] k = "needs_review" -> BooleanParse(x)
      [] k = "record" -> RecordSchema(x)
      [] k = "items" ->
             Optional(x, ArrayParse(x, [i \in 1..Len(Elems(x)) |->
                                           RecordParse(Elems(x)[i])]))
      [] k = "ambiguities" ->
             Optional(x, ArrayParse(x, [i \in 1..Len(Elems(x)) |->
                                           AmbiguitySchema(Elems(x)[i])]))
      [] OTHER -> Optional(x, StringParse(x))

IntentionPropositionSchema(x) ==
    ObjectParse(x, <<"operation", "needs_review", "record", "items", "ambiguities",
                     "reasoning">>,
        [k \in {"operation", "needs_review", "record", "items", "ambiguities",
                "reasoning"} |-> PropositionField(k, Member(x, k))])

InferredIntents == {"action", "query", "mixed"}

\* Mutant of IntentParse: any string is an intent.
IntentParseAnyString(x) ==
    IF x.t # "string" THEN Fail(InvalidType("string", x)) ELSE Pass(x)

\* z.enum(['action', 'query', 'mixed'])
IntentParse(x) ==
    IF x.t # "string" THEN Fail(InvalidType("'action' | 'query' | 'mixed'", x))
    ELSE IF x.v \notin InferredIntents
    THEN Fail(<<Issue(<<>>, <<"Invalid enum value. Expected 'action' | 'query' | 'mixed', received '",
                              x.v, "'">>)>>)
    ELSE Pass(x)

ResponseMetaSchema(x) ==
    ObjectParse(x, <<"inferredIntent">>,
        [k \in {"inferredIntent"} |-> IntentParse(Member(x, k))])

\* answer: z.string().nullish()
AnswerParse(x) ==
    IF x.t \in {"undefined", "null"} THEN Pass(x) ELSE StringParse(x)

ResponseField(k, x) ==
    CASE k \in {"propositions", "alternative_propositions"} ->
             ArrayParse(x, [i \in 1..Len(Elems(x)) |->
                               IntentionPropositionSchema(Elems(x)[i])])
      [] k = "unresolved" ->
             ArrayParse(x, [i \in 1..Len(Elems(x)) |-> UnresolvedItemSchema(Elems(x)[i])])
      [] k = "new_entities" ->
             ArrayParse(x, [i \in 1..Len(Elems(x)) |->
                               NewEntityProposalSchema(Elems(x)[i])])
      [] k = "errors" ->
             ArrayParse(x, [i \in 1..Len(Elems(x)) |-> GavagaiErrorSchema(Elems(x)[i])])
      [] k = "answer" -> AnswerParse(x)
      [] OTHER -> ResponseMetaSchema(x)

GavagaiResponseSchema(x) ==
    ObjectParse(x, <<"propositions", "alternative_propositions", "unresolved",
                     "new_entities", "answer", "errors", "meta">>,
        [k \in {"propositions", "alternative_propositions", "unresolved",
                "new_entities", "answer", "errors", "meta"} |->
            ResponseField(k, Member(x, k))])

(***************************************************************************)
(* The documents a model reply can carry, and JSON.parse                   *)
(***************************************************************************)
Proposition(operation, originalRaw) ==
    Obj([operation |-> Str(operation),
         needs_review |-> Bool(FALSE),
         record |-> Obj([originalRaw |-> Str(originalRaw),
                         date |-> Str("2024-01-15")])])

Response(props, extra) ==
    Obj([k \in {"propositions", "alternative_propositions", "unresolved",
                "new_entities", "errors", "meta"} \cup extra |->
          CASE k = "propositions" -> Arr(props)
            [] k = "meta" -> Obj([inferredIntent |-> Str("action")])
            [] k = "model" -> Str("extra top-level key")
            [] OTHER -> Arr(<<>>)])

\* The symbols that stand for the members of a JSON object.
DocSymbols == {"V", "U", "E", "X", "M"}

\* What JSON.parse builds for the object whose members are b:
\*   V  the valid response of the tests (operation InsertTransaction)
\*   U  the same with an operation that is no verb of the ontology
\*   E  the same with an empty record.originalRaw
\*   X  V with a top-level key the schema does not know
\*   M  V without its errors array
DocValue(b) ==
    CASE b = "V" -> Response(<<Proposition("InsertTransaction", "STARBUCKS 12.50")>>, {})
      [] b = "U" -> Response(<<Proposition("UnknownOperation", "STARBUCKS 12.50")>>, {})
      [] b = "E" -> Response(<<Proposition("InsertTransaction", "")>>, {})
      [] b = "X" -> Response(<<Proposition("InsertTransaction", "STARBUCKS 12.50")>>,
                             {"model"})
      [] OTHER -> Pick(Response(<<Proposition("InsertTransaction", "STARBUCKS 12.50")>>, {}),
                       {"propositions", "alternative_propositions", "unresolved",
                        "new_entities", "meta"})

\* The characters JSON.parse skips around a value.
JsonWhitespace == {" "}

JsonTrim(s) ==
    LET solid == {i \in 1..Len(s) : s[i] \notin JsonWhitespace}
    IN  IF solid = {} THEN <<>> ELSE SubSeq(s, Min(solid), Max(solid))

\* The double quote that opens and closes a string in a JSON text.
Quote == "\""

\* The number literals of the texts.
NumberTokens == {"12.5", "0"}

Num(x) == [t |-> "number", v |-> x]

\* The order in which the objects of this model list their own properties
\* (JavaScript keeps the order of creation; Object.keys and JSON.stringify
\* follow it).
KeyOrder ==
    <<"propositions", "alternative_propositions", "unresolved", "new_entities",
      "answer", "errors", "meta", "model",
      "operation", "needs_review", "record", "items", "ambiguities", "reasoning",
      "confidence",
      "originalRaw", "date", "amount", "tags", "payee", "name",
      "field", "reason", "alternatives", "suggestedOptions", "value", "label",
      "alias", "canonicalId", "entityType", "rationale",
      "code", "message", "context", "inferredIntent", "hint", "detail",
      "fewShot", "currentDate", "knowledgeBase", "debug", "knowledge",
      "userLocation", "businessRules", "input", "output",
      "schema", "verbs", "nouns", "validation", "Transaction", "fields",
      "InsertTransaction", "description", "accounts", "id", "aliases">>

\* The own keys of object o, in property order.
OwnKeys(o) == SelectSeq(KeyOrder, LAMBDA k : k \in DOMAIN o.v)

\* The texts of a sequence joined with commas.
RECURSIVE JoinComma(_)
JoinComma(ts) ==
    IF ts = <<>> THEN <<>>
    ELSE IF Len(ts) = 1 THEN ts[1]
    ELSE ts[1] \o <<",">> \o JoinComma(Tail(ts))

\* JSON.stringify(v), no indentation: a text is a sequence of tokens, a
\* string being its content between two quotes.  A property whose value is
\* undefined is left out; undefined in an array is written null.
RECURSIVE JSONStringify(_)
JSONStringify(x) ==
    CASE x.t = "string" -> <<Quote, x.v, Quote>>
      [] x.t = "boolean" -> IF x.v THEN <<"true">> ELSE <<"false">>
      [] x.t = "number" -> <<x.v>>
      [] x.t = "array" ->
             <<"[">> \o JoinComma([i \in 1..Len(x.v) |->
                                     IF x.v[i].t = "undefined" THEN <<"null">>
                                     ELSE JSONStringify(x.v[i])]) \o <<"]">>
      [] x.t = "object" ->
             LET keys == SelectSeq(OwnKeys(x), LAMBDA k : x.v[k].t # "undefined")
             IN  <<"{">> \o JoinComma([i \in 1..Len(keys) |->
                                         <<Quote, keys[i], Quote, ":">>
                                             \o JSONStringify(x.v[keys[i]])]) \o <<"}">>
      [] OTHER -> <<"null">>

NoValue(i) == [ok |-> FALSE, value |-> Null, next |-> i]

Value(x, i) == [ok |-> TRUE, value |-> x, next |-> i]

EmptyObject == Obj([k \in {} |-> Null])

\* The parser of JSON.parse, by recursive descent from position i of text s:
\* [ok, value, next], next being the position after the value.  A later
\* member of the same name replaces an earlier one.
RECURSIVE ParseValue(_, _), ParseElements(_, _, _), ParseMembers(_, _, _)
ParseValue(s, i) ==
    IF i > Len(s) THEN NoValue(i)
    ELSE CASE s[i] = "{" ->
                  IF i + 2 <= Len(s) /\ s[i + 1] \in DocSymbols /\ s[i + 2] = "}"
                  THEN Value(DocValue(s[i + 1]), i + 3)
                  ELSE IF i + 1 <= Len(s) /\ s[i + 1] = "}"
                  THEN Value(EmptyObject, i + 2)
                  ELSE ParseMembers(s, i + 1, EmptyObject)
           [] s[i] = "[" ->
                  IF i + 1 <= Len(s) /\ s[i + 1] = "]"
                  THEN Value(Arr(<<>>), i + 2)
                  ELSE ParseElements(s, i + 1, <<>>)
           [] s[i] = Quote ->
                  IF i + 2 <= Len(s) /\ s[i + 2] = Quote /\ s[i + 1] # Quote
                  THEN Value(Str(s[i + 1]), i + 3)
                  ELSE NoValue(i)
           [] s[i] = "true" -> Value(Bool(TRUE), i + 1)
           [] s[i] = "false" -> Value(Bool(FALSE), i + 1)
           [] s[i] = "null" -> Value(Null, i + 1)
           [] s[i] \in NumberTokens -> Value(Num(s[i]), i + 1)
           [] OTHER -> NoValue(i)

ParseElements(s, i, acc) ==
    LET e == ParseValue(s, i)
    IN  IF ~e.ok \/ e.next > Len(s) THEN NoValue(i)
        ELSE IF s[e.next] = "]" THEN Value(Arr(Append(acc, e.value)), e.next + 1)
        ELSE IF s[e.next] = "," THEN ParseElements(s, e.next + 1, Append(acc, e.value))
        ELSE NoValue(i)

ParseMembers(s, i, acc) ==
    LET k == ParseValue(s, i)
        e == ParseValue(s, k.next + 1)
    IN  IF ~k.ok \/ k.value.t # "string" \/ k.next > Len(s) THEN NoValue(i)
        ELSE IF s[k.next] # ":" THEN NoValue(i)
        ELSE IF ~e.ok \/ e.next > Len(s) THEN NoValue(i)
        ELSE IF s[e.next] = "}" THEN Value(With(acc, k.value.v, e.value), e.next + 1)
        ELSE IF s[e.next] = ","
        THEN ParseMembers(s, e.next + 1, With(acc, k.value.v, e.value))
        ELSE NoValue(i)

\* JSON.parse(text): [ok, value]; not ok is a SyntaxError.  The text must be
\* one value and nothing else, blanks at its ends aside.
JSONParse(s) ==
    LET body == JsonTrim(s)
        r == ParseValue(body, 1)
    IN  IF r.ok /\ r.next = Len(body) + 1
        THEN [ok |-> TRUE, value |-> r.value]
        ELSE [ok |-> FALSE, value |-> Null]

(***************************************************************************)
(* Thrown values                                                           *)
(***************************************************************************)
NoContext == [key |-> "undefined", value |-> <<>>]

Context(k, x) == [key |-> k, value |-> x]

\* A thrown value: type is the JavaScript class (or typeof for a value that
\* is no Error), message a sequence of text pieces.
Thrown(type, name, code, status, message, context) ==
    [type |-> type, name |-> name, code |-> code, status |-> status,
     message |-> message, context |-> context]

NoError == Thrown("none", "none", "none", "none", <<>>, NoContext)

ErrorClasses == {"Error", "TypeError", "SyntaxError", "ZodError", "GavagaiException"}

\* error instanceof Error
IsError(e) == e.type \in ErrorClasses

\* String(error)
StringOf(e) ==
    CASE IsError(e) -> <<e.name, ": ">> \o e.message
      [] e.type = "string" -> e.message
      [] OTHER -> <<"[object Object]">>

\* new GavagaiException(code, message, context)
GavagaiException(code, message, context) ==
    Thrown("GavagaiException", "GavagaiException", code, "none", message, context)

SyntaxError == Thrown("SyntaxError", "SyntaxError", "none", "none",
                      <<"Unexpected token in JSON">>, NoContext)

ZodError == Thrown("ZodError", "ZodError", "none", "none", <<"[ zod issues ]">>,
                   NoContext)

\* parseResponse(raw): JSON.parse, then GavagaiResponseSchema.parse; either
\* may throw.
parseResponse(s) ==
    LET parsed == JSONParse(s)
        checked == GavagaiResponseSchema(parsed.value)
    IN  IF ~parsed.ok THEN [threw |-> TRUE, error |-> SyntaxError, value |-> Null]
        ELSE IF ~checked.ok THEN [threw |-> TRUE, error |-> ZodError, value |-> Null]
        ELSE [threw |-> FALSE, error |-> NoError, value |-> checked.value]

(***************************************************************************)
(* safeParseResponse and validate                                          *)
(***************************************************************************)
\* Mutant of safeParseResponse: JSON.parse stands outside the try block.
safeParseResponseUnguarded(s) ==
    LET parsed == JSONParse(s)
        checked == GavagaiResponseSchema(parsed.value)
    IN  IF ~parsed.ok THEN [threw |-> TRUE, error |-> SyntaxError, value |-> Null]
        ELSE IF checked.ok THEN [threw |-> FALSE, error |-> NoError, value |-> checked.value]
        ELSE [threw |-> FALSE, error |-> NoError, value |-> Null]

\* safeParseResponse(raw): the try block around JSON.parse and safeParse, and
\* the catch that returns null.
safeParseResponse(s) ==
    LET parsed == JSONParse(s)
        checked == GavagaiResponseSchema(parsed.value)
    IN  IF ~parsed.ok THEN [threw |-> FALSE, error |-> NoError, value |-> Null]
        ELSE IF checked.ok THEN [threw |-> FALSE, error |-> NoError, value |-> checked.value]
        ELSE [threw |-> FALSE, error |-> NoError, value |-> Null]

\* e.path.join('.')
RECURSIVE JoinDot(_)
JoinDot(path) ==
    IF path = <<>> THEN <<>>
    ELSE IF Len(path) = 1 THEN path
    ELSE <<path[1], ".">> \o JoinDot(Tail(path))

zodErrorsToSchemaErrors(issues) ==
    [j \in 1..Len(issues) |->
        [path |-> JoinDot(issues[j].path), message |-> issues[j].message]]

\* An ontology, as far as validate reads it: verbs is Object.keys of its
\* verbs object.
Ontology(verbs) == [verbs |-> verbs]

ConstraintError(code, message, context) ==
    [code |-> code, message |-> message, context |-> context]

NotIterable(k) ==
    Thrown("TypeError", "TypeError", "none", "none",
           <<"response.", k, " is not iterable">>, NoContext)

CannotRead(x, k) ==
    Thrown("TypeError", "TypeError", "none", "none",
           <<"Cannot read properties of ", x.t, " (reading '", k, "')">>, NoContext)

Returns(errors) == [threw |-> FALSE, error |-> NoError, errors |-> errors]

Throws(e) == [threw |-> TRUE, error |-> e, errors |-> <<>>]

\* Whether [...response.propositions, ...response.alternative_propositions]
\* can be built, the error it raises if not, and the list if so.
allPropositions(response) ==
    LET props == Member(response, "propositions")
        alts == Member(response, "alternative_propositions")
    IN  IF response.t \in {"undefined", "null"}
        THEN [threw |-> TRUE, error |-> CannotRead(response, "propositions"), list |-> <<>>]
        ELSE IF props.t # "array"
        THEN [threw |-> TRUE, error |-> NotIterable("propositions"), list |-> <<>>]
        ELSE IF alts.t # "array"
        THEN [threw |-> TRUE, error |-> NotIterable("alternative_propositions"),
              list |-> <<>>]
        ELSE [threw |-> FALSE, error |-> NoError, list |-> props.v \o alts.v]

\* verbs.includes(x)
Includes(verbs, x) == x.t = "string" /\ \E i \in 1..Len(verbs) : verbs[i] = x.v

\* The loop of validateOperations over the propositions from position i on,
\* errors being what it has pushed so far.
RECURSIVE OperationsLoop(_, _, _, _)
OperationsLoop(all, verbs, i, errors) ==
    IF i > Len(all) THEN Returns(errors)
    ELSE IF all[i].t \in {"undefined", "null"} THEN Throws(CannotRead(all[i], "operation"))
    ELSE LET operation == Member(all[i], "operation")
         IN  IF Includes(verbs, operation)
             THEN OperationsLoop(all, verbs, i + 1, errors)
             ELSE OperationsLoop(all, verbs, i + 1,
                      Append(errors,
                          ConstraintError("UNKNOWN_OPERATION",
                              <<"Operation \"", operation.v,
                                "\" is not defined in ontology verbs">>,
                              [operation |-> operation, allowedVerbs |-> verbs])))

\* Mutant of validateOperations: the alternatives are not looked at.
validateOperationsPrimaryOnly(response, ontology) ==
    LET all == allPropositions(response)
    IN  IF all.threw THEN Throws(all.error)
        ELSE OperationsLoop(Elems(Member(response, "propositions")), ontology.verbs,
                            1, <<>>)

validateOperations(response, ontology) ==
    LET all == allPropositions(response)
    IN  IF all.threw THEN Throws(all.error)
        ELSE OperationsLoop(all.list, ontology.verbs, 1, <<>>)

\* !x for the values of this model.
Falsy(x) ==
    \/ x.t \in {"undefined", "null"}
    \/ x.t = "string" /\ x.v = ""
    \/ x.t = "boolean" /\ ~x.v
    \/ x.t = "number" /\ x.v = "0"

\* Mutant of OriginalRawLoop: the index reported is one-based.
RECURSIVE OriginalRawLoopOneBased(_, _, _)
OriginalRawLoopOneBased(all, i, errors) ==
    IF i > Len(all) THEN Returns(errors)
    ELSE LET prop == all[i]
             record == Member(prop, "record")
             missing == ConstraintError("VALIDATION_FAILED",
                            <<"Proposition at index ", IndexNames[i],
                              " is missing originalRaw in record">>,
                            [propositionIndex |-> i])
         IN  IF prop.t \in {"undefined", "null"}
             THEN OriginalRawLoopOneBased(all, i + 1, Append(errors, missing))
             ELSE IF record.t \in {"undefined", "null"}
             THEN Throws(CannotRead(record, "originalRaw"))
             ELSE IF Falsy(Member(record, "originalRaw"))
             THEN OriginalRawLoopOneBased(all, i + 1, Append(errors, missing))
             ELSE OriginalRawLoopOneBased(all, i + 1, errors)

\* The loop of validateOriginalRawPreserved from position i on; the index
\* it reports is zero-based.
RECURSIVE OriginalRawLoop(_, _, _)
OriginalRawLoop(all, i, errors) ==
    IF i > Len(all) THEN Returns(errors)
    ELSE LET prop == all[i]
             record == Member(prop, "record")
             missing == ConstraintError("VALIDATION_FAILED",
                            <<"Proposition at index ", IndexNames[i],
                              " is missing originalRaw in record">>,
                            [propositionIndex |-> i - 1])
         IN  IF prop.t \in {"undefined", "null"}
             THEN OriginalRawLoop(all, i + 1, Append(errors, missing))
             ELSE IF record.t \in {"undefined", "null"}
             THEN Throws(CannotRead(record, "originalRaw"))
             ELSE IF Falsy(Member(record, "originalRaw"))
             THEN OriginalRawLoop(all, i + 1, Append(errors, missing))
             ELSE OriginalRawLoop(all, i + 1, errors)

validateOriginalRawPreserved(response) ==
    LET all == allPropositions(response)
    IN  IF all.threw THEN Throws(all.error)
        ELSE OriginalRawLoop(all.list, 1, <<>>)

NoResult == [valid |-> FALSE, schemaErrors |-> <<>>, constraintErrors |-> <<>>]

\* Mutant of validate: valid looks at the constraint errors only.
validateIgnoringSchema(response, ontology) ==
    LET schemaResult == GavagaiResponseSchema(response)
        schemaErrors == IF schemaResult.ok THEN <<>>
                        ELSE zodErrorsToSchemaErrors(schemaResult.issues)
        operations == validateOperations(response, ontology)
        originalRaw == validateOriginalRawPreserved(response)
        constraintErrors == operations.errors \o originalRaw.errors
    IN  IF operations.threw
        THEN [threw |-> TRUE, error |-> operations.error, result |-> NoResult]
        ELSE IF originalRaw.threw
        THEN [threw |-> TRUE, error |-> originalRaw.error, result |-> NoResult]
        ELSE [threw |-> FALSE, error |-> NoError,
              result |-> [valid |-> constraintErrors = <<>>,
                          schemaErrors |-> schemaErrors,
                          constraintErrors |-> constraintErrors]]

\* validate(response, ontology): [threw, error, result].
validate(response, ontology) ==
    LET schemaResult == GavagaiResponseSchema(response)
        schemaErrors == IF schemaResult.ok THEN <<>>
                        ELSE zodErrorsToSchemaErrors(schemaResult.issues)
        operations == validateOperations(response, ontology)
        originalRaw == validateOriginalRawPreserved(response)
        constraintErrors == operations.errors \o originalRaw.errors
    IN  IF operations.threw
        THEN [threw |-> TRUE, error |-> operations.error, result |-> NoResult]
        ELSE IF originalRaw.threw
        THEN [threw |-> TRUE, error |-> originalRaw.error, result |-> NoResult]
        ELSE [threw |-> FALSE, error |-> NoError,
              result |-> [valid |-> schemaErrors = <<>> /\ constraintErrors = <<>>,
                          schemaErrors |-> schemaErrors,
                          constraintErrors |-> constraintErrors]]

\* Mutant of shouldAutoExecute: the ambiguities are not looked at.
shouldAutoExecuteUnreviewed(p) == Falsy(Member(p, "needs_review"))

\* shouldAutoExecute(prop):
\* !prop.needs_review && (!prop.ambiguities || prop.ambiguities.length === 0)
shouldAutoExecute(p) ==
    /\ Falsy(Member(p, "needs_review"))
    /\ \/ Falsy(Member(p, "ambiguities"))
       \/ Len(Elems(Member(p, "ambiguities"))) = 0

(***************************************************************************)
(* The adapter registry                                                    *)
(***************************************************************************)
\* The adapter objects: two custom adapters that both call themselves
\* "mock" (the tests' MockAdapter / ErrorAdapter), and an AnthropicAdapter.
Adapters == {"mock1", "mock2", "anthropic1"}

Undefined == "undefined"

\* adapter.providerId
providerId(a) == IF a = "anthropic1" THEN "anthropic" ELSE "mock"

\* The provider identifiers callers ask for; nothing ever registers "ghost".
Providers == {"mock", "anthropic", "ghost"}

MapIndex(m, k) == CHOOSE i \in 1..Len(m) : m[i].id = k

\* Map.prototype.has
MapHas(m, k) == \E i \in 1..Len(m) : m[i].id = k

\* Map.prototype.get
MapGet(m, k) == IF MapHas(m, k) THEN m[MapIndex(m, k)].adapter ELSE Undefined

\* Mutant of MapSet: the entry always goes last, also for a key that is there.
MapSetAppend(m, k, a) == Append(m, [id |-> k, adapter |-> a])

\* Mutant of MapSet: a key that is there keeps its value.
MapSetIfAbsent(m, k, a) ==
    IF MapHas(m, k) THEN m ELSE Append(m, [id |-> k, adapter |-> a])

\* Map.prototype.set: an existing key keeps its place, a new one goes last.
MapSet(m, k, a) ==
    IF MapHas(m, k)
    THEN [m EXCEPT ![MapIndex(m, k)] = [id |-> k, adapter |-> a]]
    ELSE Append(m, [id |-> k, adapter |-> a])

\* Mutant of MapDelete: the entry that comes first is removed.
MapDeleteFirst(m, k) == IF Len(m) > 0 THEN Tail(m) ELSE m

\* Map.prototype.delete
MapDelete(m, k) ==
    IF MapHas(m, k)
    THEN SubSeq(m, 1, MapIndex(m, k) - 1) \o SubSeq(m, MapIndex(m, k) + 1, Len(m))
    ELSE m

\* Mutant of hasAdapter: asks whether anything at all is registered.
hasAdapterAny(id) == Len(adapters) > 0

hasAdapter(id) == MapHas(adapters, id)

getAdapter(id) == MapGet(adapters, id)

getProviderIds == [i \in 1..Len(adapters) |-> adapters[i].id]

registerAdapter(a) ==
    /\ adapters' = MapSet(adapters, providerId(a), a)
    /\ written' = [written EXCEPT ![providerId(a)] = a]
    /\ UNCHANGED <<callVars, harnessVars, checkVars, toolVars>>

unregisterAdapter(id) ==
    /\ adapters' = MapDelete(adapters, id)
    /\ written' = [written EXCEPT ![id] = Undefined]
    /\ UNCHANGED <<callVars, harnessVars, checkVars, toolVars>>

(***************************************************************************)
(* What complete() can do                                                  *)
(***************************************************************************)
Returned(text) == [kind |-> "text", text |-> text, error |-> NoError]

Threw(e) == [kind |-> "throw", text |-> <<>>, error |-> e]

NoOutcome == [kind |-> "none", text |-> <<>>, error |-> NoError]

Document(b) == <<"{", b, "}">>

\* The reply shapes of the tests: the bare payload, the payload inside
\* prose, the payload in a code block tagged json.
Bare(p) == p

InProse(p) == <<"a", " ">> \o p \o <<" ", "a">>

InCodeBlock(p) == <<Tick, Tick, Tick, "j", "s", "o", "n", " ">> \o p \o <<" ", Tick, Tick, Tick>>

Payloads == {Document(b) : b \in DocSymbols} \cup {<<"a", " ", "a">>}

Replies ==
    {Bare(p) : p \in Payloads} \cup {InProse(p) : p \in Payloads}
        \cup {InCodeBlock(p) : p \in Payloads}

\* What a custom adapter may throw: an Error, an abort (cancellation or
\* timeout), a string, a plain object, a GavagaiException of its own.
AbortError == Thrown("Error", "AbortError", "none", "none",
                     <<"The operation was aborted">>, NoContext)

CustomThrows ==
    { Thrown("Error", "Error", "none", "none", <<"API Error">>, NoContext),
      AbortError,
      Thrown("string", "none", "none", "none", <<"boom">>, NoContext),
      Thrown("object", "none", "none", "503", <<"overloaded">>, NoContext),
      GavagaiException("RATE_LIMITED", <<"slow down">>, NoContext) }

CustomOutcomes == {Returned(t) : t \in Replies} \cup {Threw(e) : e \in CustomThrows}

\* What the Anthropic SDK does for one request.
SdkRateLimit == Thrown("Error", "RateLimitError", "none", "429",
                       <<"429 too many requests">>, NoContext)

SdkConnection == Thrown("Error", "APIConnectionError", "none", "none",
                        <<"Connection error.">>, NoContext)

SdkAbort == Thrown("Error", "APIUserAbortError", "none", "none",
                   <<"Request was aborted.">>, NoContext)

AnthropicApi ==
    {[kind |-> "content", text |-> t, error |-> NoError] : t \in Replies \cup {<<>>}}
        \cup {[kind |-> "no_sdk", text |-> <<>>, error |-> NoError]}
        \cup {[kind |-> "error", text |-> <<>>, error |-> e] :
                 e \in {SdkRateLimit, SdkConnection, SdkAbort}}

\* AnthropicAdapter.complete
AnthropicComplete(api) ==
    CASE api.kind = "no_sdk" ->
             Threw(GavagaiException("VALIDATION_FAILED",
                       <<"Anthropic SDK not installed. Run: npm install @anthropic-ai/sdk">>,
                       Context("originalError", <<"Error", ": ", "Cannot find package">>)))
      [] api.kind = "content" ->
             IF api.text = <<>>
             THEN Threw(GavagaiException("UNPARSEABLE",
                            <<"Unexpected response format from Anthropic API">>,
                            Context("response", <<"[object Object]">>)))
             ELSE Returned(api.text)
      [] OTHER ->
             IF api.error.status = "429"
             THEN Threw(GavagaiException("VALIDATION_FAILED",
                            <<"Rate limited by Anthropic API">>,
                            Context("status", <<"429">>)))
             ELSE Threw(GavagaiException("VALIDATION_FAILED",
                            <<"Anthropic API error: ">> \o api.error.message,
                            Context("originalError", StringOf(api.error))))

\* How the promise returned by adapter a's complete() can settle.
CompleteOutcomes(a) ==
    IF a = "anthropic1" THEN {AnthropicComplete(api) : api \in AnthropicApi}
    ELSE CustomOutcomes

\* The outcomes by which an adapter signals cancellation or a timeout.
IsCancellation(o) ==
    \/ o = Threw(AbortError)
    \/ o = AnthropicComplete([kind |-> "error", text |-> <<>>, error |-> SdkAbort])

(***************************************************************************)
(* Prompt assembly, as far as interpret depends on it                      *)
(***************************************************************************)
\* Inputs: an utterance without metadata, with plain metadata, and with
\* metadata JSON.stringify cannot serialise (a cycle, a BigInt).
Inputs == {"plain", "with metadata", "unserialisable metadata"}

TypeError == Thrown("TypeError", "TypeError", "none", "none",
                    <<"Converting circular structure to JSON">>, NoContext)

\* buildPrompt: buildUserMessage runs JSON.stringify over the metadata.
buildPrompt(input) ==
    IF input = "unserialisable metadata"
    THEN [threw |-> TRUE, error |-> TypeError, user |-> <<>>]
    ELSE [threw |-> FALSE, error |-> NoError,
          user |-> <<"Interpret the following utterance:", input>>]

\* The texts of a sequence joined with the text sep.
RECURSIVE JoinBy(_, _)
JoinBy(ts, sep) ==
    IF ts = <<>> THEN <<>>
    ELSE IF Len(ts) = 1 THEN ts[1]
    ELSE ts[1] \o sep \o JoinBy(Tail(ts), sep)

\* serializeForPrompt: JSON.stringify(obj, null, 2), at nesting depth n.  A
\* member goes on a line of its own, two blanks deeper than its container.
RECURSIVE Indented(_, _)
Indented(x, n) ==
    LET pad == [i \in 1..(2 * n) |-> " "]
        keys == IF x.t = "object"
                THEN SelectSeq(OwnKeys(x), LAMBDA k : x.v[k].t # "undefined")
                ELSE <<>>
    IN  CASE x.t = "array" /\ Len(x.v) > 0 ->
                 <<"[", "\n">>
                     \o JoinBy([i \in 1..Len(x.v) |->
                                   pad \o <<" ", " ">>
                                       \o (IF x.v[i].t = "undefined" THEN <<"null">>
                                           ELSE Indented(x.v[i], n + 1))],
                               <<",", "\n">>)
                     \o <<"\n">> \o pad \o <<"]">>
          [] x.t = "object" /\ Len(keys) > 0 ->
                 <<"{", "\n">>
                     \o JoinBy([i \in 1..Len(keys) |->
                                   pad \o <<" ", " ", Quote, keys[i], Quote, ":", " ">>
                                       \o Indented(x.v[keys[i]], n + 1)],
                               <<",", "\n">>)
                     \o <<"\n">> \o pad \o <<"}">>
          [] OTHER -> JSONStringify(x)

\* A fenced json block holding text t.
JsonBlock(t) == <<Tick, Tick, Tick, "json", "\n">> \o t \o <<"\n", Tick, Tick, Tick>>

\* formatFewShotExamples
formatFewShotExamples(examples) ==
    IF Falsy(examples) \/ Len(Elems(examples)) = 0 THEN <<"No examples provided.">>
    ELSE JoinBy([i \in 1..Len(examples.v) |->
                    <<"### Example ", IndexNames[i + 1], "\n",
                      "**Input:** ", Member(examples.v[i], "input").v, "\n",
                      "**Output:**", "\n">>
                        \o JsonBlock(Indented(Member(examples.v[i], "output"), 0))
                        \o (IF Falsy(Member(examples.v[i], "rationale")) THEN <<>>
                            ELSE <<"\n", "**Rationale:** ",
                                   Member(examples.v[i], "rationale").v>>)],
                <<"\n", "\n">>)

\* One section of formatKnowledgeBase: nothing for a part that is not there
\* or has no keys.
KnowledgeSection(part, title) ==
    IF Falsy(part) \/ KeysOf(part) = {} THEN <<>>
    ELSE <<title, "\n", "\n">> \o JsonBlock(Indented(part, 0)) \o <<"\n", "\n">>

\* formatKnowledgeBase
formatKnowledgeBase(knowledgeBase) ==
    IF Falsy(knowledgeBase) THEN <<>>
    ELSE KnowledgeSection(Member(knowledgeBase, "context"), "## Current Context")
             \o KnowledgeSection(Member(knowledgeBase, "knowledge"), "## Domain Knowledge")

\* a ?? b
Coalesce(a, b) == IF a.t \in {"undefined", "null"} THEN b ELSE a

\* The date buildSystemPrompt puts into the prompt; today is what
\* new Date().toISOString().split('T')[0] gives.
PromptDate(currentDate, knowledgeBase, today) ==
    Coalesce(Member(Member(knowledgeBase, "context"), "currentDate"),
        Coalesce(Member(Member(knowledgeBase, "knowledge"), "currentDate"),
            Coalesce(currentDate, Str(today))))

\* buildSystemPrompt; the fixed prose between the sections is left out.
buildSystemPrompt(ontology, currentDate, fewShot, knowledgeBase, today) ==
    <<"# Role: Gavagai Interpretation Engine", "\n", "## Domain Schema", "\n">>
        \o JsonBlock(Indented(Member(ontology, "schema"), 0))
        \o <<"\n", "## Allowed Verbs", "\n">>
        \o JsonBlock(Indented(Member(ontology, "verbs"), 0))
        \o <<"\n", "## Known Entities (with aliases)", "\n">>
        \o JsonBlock(Indented(Member(ontology, "nouns"), 0))
        \o <<"\n", "## Validation Rules", "\n">>
        \o JsonBlock(Indented(Coalesce(Member(ontology, "validation"), EmptyObject), 0))
        \o <<"\n", "## Current Date", "\n",
              PromptDate(currentDate, knowledgeBase, today).v, "\n", "\n">>
        \o formatKnowledgeBase(knowledgeBase)
        \o <<"## Few-Shot Examples", "\n">>
        \o formatFewShotExamples(fewShot)
        \o <<"\n", "## Uncertainty Signals", "\n", "## Output Schema">>

\* { ...a, ...b }: the own keys of a, then those of b, which win; spreading
\* undefined adds nothing.
Spread(a, b) ==
    Obj([k \in KeysOf(a) \cup KeysOf(b) |-> IF k \in KeysOf(b) THEN b.v[k] ELSE a.v[k]])

\* Mutant of buildPromptMergedOptions: the knowledge base of the call
\* replaces that of the defaults.
buildPromptMergedOptionsShallow(defaultOptions, opts) == Spread(defaultOptions, opts)

\* mergedOptions of GavagaiClient.buildPrompt
buildPromptMergedOptions(defaultOptions, opts) ==
    With(Spread(defaultOptions, opts), "knowledgeBase",
         IF ~Falsy(Member(opts, "knowledgeBase"))
         THEN Obj([context |->
                       Spread(Member(Member(defaultOptions, "knowledgeBase"), "context"),
                              Member(Member(opts, "knowledgeBase"), "context")),
                   knowledge |->
                       Spread(Member(Member(defaultOptions, "knowledgeBase"), "knowledge"),
                              Member(Member(opts, "knowledgeBase"), "knowledge"))])
         ELSE Member(defaultOptions, "knowledgeBase"))

\* mergedOptions of GavagaiClient.interpret
interpretMergedOptions(defaultOptions, opts) ==
    With(Spread(defaultOptions, opts), "knowledgeBase",
         IF ~Falsy(Member(opts, "knowledgeBase"))
         THEN Obj([context |->
                       Spread(Member(Member(defaultOptions, "knowledgeBase"), "context"),
                              Member(Member(opts, "knowledgeBase"), "context")),
                   knowledge |->
                       Spread(Member(Member(defaultOptions, "knowledgeBase"), "knowledge"),
                              Member(Member(opts, "knowledgeBase"), "knowledge"))])
         ELSE Member(defaultOptions, "knowledgeBase"))

\* buildPrompt(input, ontology, opts.currentDate, opts.fewShot,
\* opts.knowledgeBase), for an input whose user message can be built.
PromptFor(input, ontology, opts, today) ==
    [done |-> TRUE,
     system |-> buildSystemPrompt(ontology, Member(opts, "currentDate"),
                                  Member(opts, "fewShot"), Member(opts, "knowledgeBase"),
                                  today),
     user |-> buildPrompt(input).user]

(***************************************************************************)
(* interpret                                                               *)
(***************************************************************************)
CallIds == {"c1", "c2"}

Pending == [status |-> "pending", value |-> Null, error |-> NoError]

Fulfilled(x) == [status |-> "fulfilled", value |-> x, error |-> NoError]

Rejected(e) == [status |-> "rejected", value |-> Null, error |-> e]

\* Step 1's failure: no adapter for the provider.
NoAdapterError(provider) ==
    GavagaiException("VALIDATION_FAILED",
        <<"No adapter registered for provider: ", provider,
          ". Call registerAdapter() with an adapter for this provider.">>,
        Context("provider", <<provider>>))

\* Mutant of InvocationError: the instanceof test is gone, all is wrapped.
InvocationErrorWrapsAll(error) ==
    GavagaiException("VALIDATION_FAILED",
        <<"LLM invocation failed: ">>
            \o (IF IsError(error) THEN error.message ELSE StringOf(error)),
        Context("originalError", StringOf(error)))

\* Step 3's catch block.
InvocationError(error) ==
    IF error.type = "GavagaiException" THEN error
    ELSE GavagaiException("VALIDATION_FAILED",
             <<"LLM invocation failed: ">>
                 \o (IF IsError(error) THEN error.message ELSE StringOf(error)),
             Context("originalError", StringOf(error)))

\* Mutant of ParseError: the context carries the extracted text.
ParseErrorExtracted(rawResponse, json, error) ==
    GavagaiException("UNPARSEABLE",
        <<"Failed to parse LLM response as valid GavagaiResponse: ">>
            \o (IF IsError(error) THEN error.message ELSE StringOf(error)),
        Context("rawResponse", json))

\* Step 4's catch block.
ParseError(rawResponse, json, error) ==
    GavagaiException("UNPARSEABLE",
        <<"Failed to parse LLM response as valid GavagaiResponse: ">>
            \o (IF IsError(error) THEN error.message ELSE StringOf(error)),
        Context("rawResponse", rawResponse))

\* (undefined).complete(...) inside step 3's try block.
UndefinedCall == Thrown("TypeError", "TypeError", "none", "none",
                        <<"Cannot read properties of undefined (reading 'complete')">>,
                        NoContext)

\* interpret up to its await: steps 1 and 2 and the call of complete().
Start(input, provider) ==
    IF ~hasAdapter(provider)
    THEN [pc |-> "done", bound |-> Undefined,
          result |-> Rejected(NoAdapterError(provider)),
          trace |-> <<"hasAdapter">>]
    ELSE IF buildPrompt(input).threw
    THEN [pc |-> "done", bound |-> Undefined,
          result |-> Rejected(buildPrompt(input).error),
          trace |-> <<"hasAdapter", "getAdapter", "buildPrompt">>]
    ELSE IF getAdapter(provider) = Undefined
    THEN [pc |-> "done", bound |-> Undefined,
          result |-> Rejected(InvocationError(UndefinedCall)),
          trace |-> <<"hasAdapter", "getAdapter", "buildPrompt">>]
    ELSE [pc |-> "awaiting", bound |-> getAdapter(provider),
          result |-> Pending,
          trace |-> <<"hasAdapter", "getAdapter", "buildPrompt", "complete">>]

\* Mutant of Finish: step 4 runs even after complete() failed.
FinishParsesAnyway(outcome) ==
    LET json == extractJson(outcome.text)
        parsed == parseResponse(json)
    IN  IF outcome.kind = "throw"
        THEN [result |-> Rejected(InvocationError(outcome.error)),
              steps |-> <<"extractJson", "parseResponse">>]
        ELSE IF parsed.threw
             THEN [result |-> Rejected(ParseError(outcome.text, json, parsed.error)),
                   steps |-> <<"extractJson", "parseResponse">>]
             ELSE [result |-> Fulfilled(parsed.value),
                   steps |-> <<"extractJson", "parseResponse">>]

\* Mutant of Finish: the parsed response is checked against the ontology
\* (verbs: InsertTransaction; originalRaw not empty) before it is returned.
FinishValidates(outcome) ==
    IF outcome.kind = "throw"
    THEN [result |-> Rejected(InvocationError(outcome.error)), steps |-> <<>>]
    ELSE LET json == extractJson(outcome.text)
             parsed == parseResponse(json)
             props == parsed.value.v["propositions"].v
         IN  IF parsed.threw
             THEN [result |-> Rejected(ParseError(outcome.text, json, parsed.error)),
                   steps |-> <<"extractJson", "parseResponse">>]
             ELSE IF \E i \in 1..Len(props) :
                         \/ props[i].v["operation"].v # "InsertTransaction"
                         \/ props[i].v["record"].v["originalRaw"].v = ""
             THEN [result |-> Rejected(GavagaiException("UNKNOWN_OPERATION",
                                  <<"constraint violated">>, NoContext)),
                   steps |-> <<"extractJson", "parseResponse">>]
             ELSE [result |-> Fulfilled(parsed.value),
                   steps |-> <<"extractJson", "parseResponse">>]

\* interpret after its await: the catch of step 3, or steps 4 to 6.
Finish(outcome) ==
    IF outcome.kind = "throw"
    THEN [result |-> Rejected(InvocationError(outcome.error)), steps |-> <<>>]
    ELSE LET json == extractJson(outcome.text)
             parsed == parseResponse(json)
         IN  IF parsed.threw
             THEN [result |-> Rejected(ParseError(outcome.text, json, parsed.error)),
                   steps |-> <<"extractJson", "parseResponse">>]
             ELSE [result |-> Fulfilled(parsed.value),
                   steps |-> <<"extractJson", "parseResponse">>]

\* Every way a complete() can settle, and Finish tabulated over them.
Outcomes == UNION {CompleteOutcomes(a) : a \in Adapters}

Finished == [o \in Outcomes |-> Finish(o)]

interpret(c, input, provider) ==
    /\ pc[c] = "idle"
    /\ pc' = [pc EXCEPT ![c] = Start(input, provider).pc]
    /\ asked' = [asked EXCEPT ![c] = provider]
    /\ bound' = [bound EXCEPT ![c] = Start(input, provider).bound]
    /\ result' = [result EXCEPT ![c] = Start(input, provider).result]
    /\ trace' = [trace EXCEPT ![c] = Start(input, provider).trace]
    /\ UNCHANGED <<adapters, written, settled, harnessVars, checkVars, toolVars>>

\* Mutant of Settle: the invocation goes to whatever adapter the provider
\* has when it settles, and fails when it has none.
SettleRegistered(c) ==
    /\ pc[c] = "awaiting"
    /\ bound' = [bound EXCEPT ![c] = getAdapter(asked[c])]
    /\ \E o \in (IF hasAdapter(asked[c]) THEN CompleteOutcomes(getAdapter(asked[c]))
                  ELSE {Threw(NoAdapterError(asked[c]))}) :
           settled' = [settled EXCEPT ![c] = o]
    /\ pc' = [pc EXCEPT ![c] = "settled"]
    /\ UNCHANGED <<adapters, written, asked, result, trace, harnessVars, checkVars, toolVars>>

\* The promise of complete() settles (the adapter's doing, not interpret's).
Settle(c) ==
    /\ pc[c] = "awaiting"
    /\ \E o \in CompleteOutcomes(bound[c]) :
           settled' = [settled EXCEPT ![c] = o]
    /\ pc' = [pc EXCEPT ![c] = "settled"]
    /\ UNCHANGED <<adapters, written, asked, bound, result, trace, harnessVars, checkVars, toolVars>>

\* Mutant of Resume: a call whose invocation was cancelled is never resumed.
ResumeUnlessCancelled(c) ==
    /\ pc[c] = "settled"
    /\ ~IsCancellation(settled[c])
    /\ result' = [result EXCEPT ![c] = Finished[settled[c]].result]
    /\ trace' = [trace EXCEPT ![c] = trace[c] \o Finished[settled[c]].steps]
    /\ pc' = [pc EXCEPT ![c] = "done"]
    /\ UNCHANGED <<adapters, written, asked, bound, settled, harnessVars, checkVars, toolVars>>

\* Mutant of Resume: a finished call takes its provider's adapter along.
ResumeAndForget(c) ==
    /\ pc[c] = "settled"
    /\ result' = [result EXCEPT ![c] = Finished[settled[c]].result]
    /\ trace' = [trace EXCEPT ![c] = trace[c] \o Finished[settled[c]].steps]
    /\ pc' = [pc EXCEPT ![c] = "done"]
    /\ adapters' = MapDelete(adapters, asked[c])
    /\ UNCHANGED <<written, asked, bound, settled, harnessVars, checkVars, toolVars>>

\* Mutant of Resume: rawResponse is shared, a call resumes with the reply
\* that another call has got, if there is one.
ResumeShared(c) ==
    LET others == {d \in CallIds \ {c} : settled[d] # NoOutcome}
        from == IF others = {} THEN c ELSE CHOOSE d \in others : TRUE
    IN  /\ pc[c] = "settled"
        /\ result' = [result EXCEPT ![c] = Finished[settled[from]].result]
        /\ trace' = [trace EXCEPT ![c] = trace[c] \o Finished[settled[from]].steps]
        /\ pc' = [pc EXCEPT ![c] = "done"]
        /\ UNCHANGED <<adapters, written, asked, bound, settled, harnessVars, checkVars,
                       toolVars>>

\* The event loop resumes interpret with the settled promise.
Resume(c) ==
    /\ pc[c] = "settled"
    /\ result' = [result EXCEPT ![c] = Finished[settled[c]].result]
    /\ trace' = [trace EXCEPT ![c] = trace[c] \o Finished[settled[c]].steps]
    /\ pc' = [pc EXCEPT ![c] = "done"]
    /\ UNCHANGED <<adapters, written, asked, bound, settled, harnessVars, checkVars, toolVars>>

\* Nothing has been handed to the parsers or to validate.
NotRun == [done |-> FALSE, threw |-> FALSE, error |-> NoError, value |-> Null]

NotValidated == [done |-> FALSE, threw |-> FALSE, error |-> NoError, result |-> NoResult]

NoChecks ==
    /\ vResponse = Undef
    /\ vOntology = Ontology(<<>>)
    /\ wire = <<>>
    /\ strict = NotRun
    /\ safe = NotRun
    /\ again = NotRun
    /\ report = NotValidated

NotAsked == [done |-> FALSE, value |-> FALSE]

NoPrompt == [done |-> FALSE, system |-> <<>>, user |-> <<>>]

NoTools ==
    /\ vProp = Undef
    /\ auto = NotAsked
    /\ vDefaults = Undef
    /\ vOptions = Undef
    /\ vToday = "2024-03-01"
    /\ built = NoPrompt
    /\ sent = NoPrompt

Init ==
    /\ adapters = <<>>
    /\ written = [id \in Providers |-> Undefined]
    /\ pc = [c \in CallIds |-> "idle"]
    /\ asked = [c \in CallIds |-> "none"]
    /\ bound = [c \in CallIds |-> Undefined]
    /\ settled = [c \in CallIds |-> NoOutcome]
    /\ result = [c \in CallIds |-> Pending]
    /\ trace = [c \in CallIds |-> <<>>]
    /\ raw = <<>>
    /\ extracted = [done |-> FALSE, json |-> <<>>]
    /\ NoChecks
    /\ NoTools

Next ==
    \/ \E a \in Adapters : registerAdapter(a)
    \/ \E id \in Providers : unregisterAdapter(id)
    \/ \E c \in CallIds, input \in Inputs, provider \in Providers :
           interpret(c, input, provider)
    \/ \E c \in CallIds : Settle(c)
    \/ \E c \in CallIds : Resume(c)

Spec == Init /\ [][Next]_vars

\* The event loop runs the continuation of every settled promise.
FairSpec == Spec /\ \A c \in CallIds : WF_vars(Resume(c))

(***************************************************************************)
(* The extraction harness: a text is drawn, extractJson is applied to it.  *)
(***************************************************************************)
Tokens ==
    { <<Tick, Tick, Tick>>, <<"j", "s", "o", "n">>, <<"{">>, <<"}">>,
      <<" ">>, <<"a">>, <<Tick>> }

Texts == { Flatten(ts) : ts \in UNION { [1..n -> Tokens] : n \in 0..MaxTokens } }

NotExtracted == [done |-> FALSE, json |-> <<>>]

InitExtract ==
    /\ raw \in Texts
    /\ extracted = NotExtracted
    /\ adapters = <<>>
    /\ written = [id \in Providers |-> Undefined]
    /\ pc = [c \in CallIds |-> "idle"]
    /\ asked = [c \in CallIds |-> "none"]
    /\ bound = [c \in CallIds |-> Undefined]
    /\ settled = [c \in CallIds |-> NoOutcome]
    /\ result = [c \in CallIds |-> Pending]
    /\ trace = [c \in CallIds |-> <<>>]
    /\ NoChecks
    /\ NoTools

Extract ==
    /\ ~extracted.done
    /\ extracted' = [done |-> TRUE, json |-> extractJson(raw)]
    /\ UNCHANGED <<raw, adapters, written, callVars, checkVars, toolVars>>

NextExtract == Extract

SpecExtract == InitExtract /\ [][NextExtract]_vars

(***************************************************************************)
(* The validation harness: a response value is drawn; its serialisation   *)
(* (or a damaged text) goes to parseResponse and safeParseResponse, the    *)
(* value itself to validate.                                               *)
(***************************************************************************)
\* Longest list propositions ++ alternative_propositions that is drawn.
MaxProps == 3

GoodProp == Proposition("InsertTransaction", "STARBUCKS 12.50")

UnknownProp == Proposition("UnknownOperation", "STARBUCKS 12.50")

EmptyRawProp == Proposition("InsertTransaction", "")

\* A proposition with domain fields on its record, items, ambiguities with
\* and without alternatives, an unset optional and a key the schema does not
\* know.
RichProp ==
    Obj([operation |-> Str("Query"),
         needs_review |-> Bool(TRUE),
         record |-> Obj([originalRaw |-> Str("coffee again"),
                         amount |-> Num("12.5"),
                         tags |-> Arr(<<Str("food"), Null>>),
                         payee |-> Obj([name |-> Str("Starbucks")])]),
         items |-> Arr(<<Obj([amount |-> Num("12.5"), name |-> Str("latte")])>>),
         ambiguities |-> Arr(<<Obj([field |-> Str("date"), reason |-> Str("no year")]),
                               Obj([field |-> Str("payee"), reason |-> Str("two shops"),
                                    alternatives |-> Arr(<<Str("Starbucks")>>)])>>),
         reasoning |-> Undef,
         confidence |-> Num("0")])

\* Hand-built propositions: a record without originalRaw, no record at all.
NoRawProp == With(GoodProp, "record", Obj([date |-> Str("2024-01-15")]))

NoRecordProp == Without(GoodProp, "record")

PropKinds == {GoodProp, UnknownProp, EmptyRawProp, RichProp, NoRawProp, NoRecordProp}

ResponseOf(props, alts) ==
    With(Response(props, {}), "alternative_propositions", Arr(alts))

ListResponses ==
    { ResponseOf(SubSeq(l, 1, cut), SubSeq(l, cut + 1, Len(l))) :
        <<l, cut>> \in { <<m, c>> \in (UNION { [1..n -> PropKinds] : n \in 0..MaxProps })
                                          \X (0..MaxProps) : c <= Len(m) } }

\* The responses that get one more change each.
Bases ==
    {ResponseOf(<<GoodProp>>, <<>>), ResponseOf(<<UnknownProp>>, <<EmptyRawProp>>),
     ResponseOf(<<RichProp>>, <<>>)}

Meta(x) == Obj([inferredIntent |-> x])

AnError == Obj([code |-> Str("VALIDATION_FAILED"), message |-> Str("Custom rule failed")])

Deviations ==
    {"no propositions", "no alternative_propositions", "no unresolved",
     "no new_entities", "no errors", "null unresolved",
     "no meta", "empty meta", "intent query", "intent mixed", "intent invalid",
     "intent Action", "intent null",
     "answer null", "answer text", "answer undefined", "answer true",
     "error", "error with context", "error without message",
     "unresolved item", "new entity", "extra key"}

Deviate(d, r) ==
    CASE d = "no propositions" -> Without(r, "propositions")
      [] d = "no alternative_propositions" -> Without(r, "alternative_propositions")
      [] d = "no unresolved" -> Without(r, "unresolved")
      [] d = "no new_entities" -> Without(r, "new_entities")
      [] d = "no errors" -> Without(r, "errors")
      [] d = "null unresolved" -> With(r, "unresolved", Null)
      [] d = "no meta" -> Without(r, "meta")
      [] d = "empty meta" -> With(r, "meta", EmptyObject)
      [] d = "intent query" -> With(r, "meta", Meta(Str("query")))
      [] d = "intent mixed" -> With(r, "meta", Meta(Str("mixed")))
      [] d = "intent invalid" -> With(r, "meta", Meta(Str("invalid")))
      [] d = "intent Action" -> With(r, "meta", Meta(Str("Action")))
      [] d = "intent null" -> With(r, "meta", Meta(Null))
      [] d = "answer null" -> With(r, "answer", Null)
      [] d = "answer text" -> With(r, "answer", Str("You spent 12.50"))
      [] d = "answer undefined" -> With(r, "answer", Undef)
      [] d = "answer true" -> With(r, "answer", Bool(TRUE))
      [] d = "error" -> With(r, "errors", Arr(<<AnError>>))
      [] d = "error with context" ->
             With(r, "errors",
                  Arr(<<With(AnError, "context",
                             Obj([hint |-> Str("check the date"),
                                  detail |-> Obj([amount |-> Num("12.5"),
                                                  tags |-> Arr(<<Bool(FALSE)>>)])]))>>))
      [] d = "error without message" ->
             With(r, "errors", Arr(<<Without(AnError, "message")>>))
      [] d = "unresolved item" ->
             With(r, "unresolved",
                  Arr(<<Obj([originalRaw |-> Str("???"), reason |-> Str("noise"),
                             suggestedOptions |->
                                 Arr(<<Obj([value |-> Str("a"), label |-> Str("A")])>>)])>>))
      [] d = "new entity" ->
             With(r, "new_entities",
                  Arr(<<Obj([alias |-> Str("sbux"), canonicalId |-> Undef,
                             entityType |-> Str("payee"), rationale |-> Str("seen twice")])>>))
      [] OTHER -> With(r, "model", Str("extra top-level key"))

DeviantResponses == {Deviate(d, r) : d \in Deviations, r \in Bases}

Responses == ListResponses \cup DeviantResponses

\* Texts that are no serialisation of a response.
FixedTexts ==
    { <<>>, <<"not", " ", "valid", " ", "json">>, <<"null">>, <<"[", "]">>,
      <<Quote, "text", Quote>>, <<"{", "}">>,
      <<"{", Quote, "propositions", Quote, ":", "[", "]", ",", "}">> }

\* A serialisation cut short, beheaded, with a brace too many, and (still
\* the same document) with blanks around it.
Damaged(t) ==
    {SubSeq(t, 1, Len(t) - 1), Tail(t), t \o <<"}">>, <<" ">> \o t \o <<" ">>}

Wires(r) ==
    {JSONStringify(r)}
        \cup (IF r \in Bases THEN Damaged(JSONStringify(r)) \cup FixedTexts ELSE {})

\* Object.keys(ontology.verbs) of the ontologies drawn.
Ontologies ==
    {Ontology(<<"InsertTransaction", "Query">>), Ontology(<<"InsertTransaction">>),
     Ontology(<<>>)}

Ran(r) == [done |-> TRUE, threw |-> r.threw, error |-> r.error, value |-> r.value]

Idle ==
    /\ adapters = <<>>
    /\ written = [id \in Providers |-> Undefined]
    /\ pc = [c \in CallIds |-> "idle"]
    /\ asked = [c \in CallIds |-> "none"]
    /\ bound = [c \in CallIds |-> Undefined]
    /\ settled = [c \in CallIds |-> NoOutcome]
    /\ result = [c \in CallIds |-> Pending]
    /\ trace = [c \in CallIds |-> <<>>]
    /\ raw = <<>>
    /\ extracted = NotExtracted

InitParse ==
    /\ Idle
    /\ vResponse \in Responses
    /\ wire \in Wires(vResponse)
    /\ vOntology = Ontology(<<>>)
    /\ strict = NotRun
    /\ safe = NotRun
    /\ again = NotRun
    /\ report = NotValidated
    /\ NoTools

Parse ==
    /\ ~strict.done
    /\ strict' = Ran(parseResponse(wire))
    /\ UNCHANGED <<adapters, written, callVars, harnessVars, vResponse, vOntology, wire, safe,
                   again, report, toolVars>>

SafeParse ==
    /\ ~safe.done
    /\ safe' = Ran(safeParseResponse(wire))
    /\ UNCHANGED <<adapters, written, callVars, harnessVars, vResponse, vOntology, wire, strict,
                   again, report, toolVars>>

\* The caller serialises the response it got and parses it once more.
Reparse ==
    /\ strict.done /\ ~strict.threw
    /\ ~again.done
    /\ again' = Ran(parseResponse(JSONStringify(strict.value)))
    /\ UNCHANGED <<adapters, written, callVars, harnessVars, vResponse, vOntology, wire, strict,
                   safe, report, toolVars>>

NextParse == Parse \/ SafeParse \/ Reparse

SpecParse == InitParse /\ [][NextParse]_vars

InitValidate ==
    /\ Idle
    /\ vResponse \in Responses
    /\ vOntology \in Ontologies
    /\ wire = <<>>
    /\ strict = NotRun
    /\ safe = NotRun
    /\ again = NotRun
    /\ report = NotValidated
    /\ NoTools

Validate ==
    /\ ~report.done
    /\ report' = [done |-> TRUE,
                  threw |-> validate(vResponse, vOntology).threw,
                  error |-> validate(vResponse, vOntology).error,
                  result |-> validate(vResponse, vOntology).result]
    /\ UNCHANGED <<adapters, written, callVars, harnessVars, vResponse, vOntology, wire, strict,
                   safe, again, toolVars>>

NextValidate == Validate

SpecValidate == InitValidate /\ [][NextValidate]_vars

(***************************************************************************)
(* The helper harness: a typed proposition is drawn and handed to          *)
(* shouldAutoExecute.                                                      *)
(***************************************************************************)
AnAmbiguity(field) ==
    Obj([field |-> Str(field), reason |-> Str("Unclear"),
         alternatives |-> Arr(<<Str("10"), Str("100")>>)])

\* The object o without the keys that hold undefined.
Present(o) == Pick(o, {k \in DOMAIN o.v : o.v[k].t # "undefined"})

\* Values of type IntentionProposition: the optional fields are there or not.
TypedProps ==
    { Present(Obj([operation |-> Str(operation),
                   needs_review |-> Bool(review),
                   record |-> record,
                   items |-> items,
                   ambiguities |-> ambiguities,
                   reasoning |-> reasoning])) :
        operation \in {"InsertTransaction", "Query"},
        review \in BOOLEAN,
        record \in {Obj([originalRaw |-> Str("test")]),
                    Obj([originalRaw |-> Str("test"), amount |-> Num("12.5")])},
        items \in {Undef, Arr(<<Obj([name |-> Str("latte")])>>)},
        ambiguities \in {Undef, Arr(<<>>), Arr(<<AnAmbiguity("amount")>>),
                         Arr(<<AnAmbiguity("amount"), AnAmbiguity("date")>>)},
        reasoning \in {Undef, Str("looks like a purchase")} }

InitAuto ==
    /\ Idle
    /\ NoChecks
    /\ vProp \in TypedProps
    /\ auto = NotAsked
    /\ vDefaults = Undef
    /\ vOptions = Undef
    /\ vToday = "2024-03-01"
    /\ built = NoPrompt
    /\ sent = NoPrompt

\* The call returns a boolean and assigns to nothing.
AutoExecute ==
    /\ ~auto.done
    /\ auto' = [done |-> TRUE, value |-> shouldAutoExecute(vProp)]
    /\ UNCHANGED <<adapters, written, callVars, harnessVars, checkVars, vProp, promptVars>>

NextAuto == AutoExecute

SpecAuto == InitAuto /\ [][NextAuto]_vars

(***************************************************************************)
(* The prompt harness: options are drawn, the system prompt is built.      *)
(***************************************************************************)
sampleOntology ==
    Obj([schema |-> Obj([Transaction |->
                             Obj([fields |-> Arr(<<Str("date"), Str("description")>>)])]),
         verbs |-> Obj([InsertTransaction |->
                            Obj([description |-> Str("Create a new transaction")])]),
         nouns |-> Obj([accounts |->
                            Arr(<<Obj([id |-> Str("expense:food:coffee"),
                                       aliases |-> Arr(<<Str("coffee")>>)])>>)])])

\* Values of type KnowledgeBase, or none: each part is not there, empty, or
\* has keys, with and without a currentDate of its own.
KnowledgeBases ==
    {Undef} \cup
    { Present(Obj([context |-> c, knowledge |-> k])) :
        c \in {Undef, EmptyObject, Obj([userLocation |-> Str("SF")]),
               Obj([currentDate |-> Str("2024-01-15")]),
               Obj([currentDate |-> Str("2024-01-15"), userLocation |-> Str("SF")])},
        k \in {Undef,
               Obj([businessRules |->
                        Arr(<<Str("Transactions over $1000 require review")>>)]),
               Obj([currentDate |-> Str("2023-12-31")])} }

FewShots ==
    {Undef, Arr(<<>>),
     Arr(<<Obj([input |-> Str("STARBUCKS 12.50"),
                output |-> Obj([operation |-> Str("InsertTransaction")]),
                rationale |-> Str("Coffee purchase")]),
           Obj([input |-> Str("example"), output |-> EmptyObject])>>)}

\* Values of type InterpretOptions.
OptionSets ==
    { Present(Obj([fewShot |-> f, currentDate |-> d, knowledgeBase |-> k])) :
        f \in FewShots, d \in {Undef, Str("2024-02-29")}, k \in KnowledgeBases }

InitPrompt ==
    /\ Idle
    /\ NoChecks
    /\ vProp = Undef
    /\ auto = NotAsked
    /\ vDefaults = Undef
    /\ vOptions \in OptionSets
    /\ vToday \in {"2024-03-01", "2024-03-02"}
    /\ built = NoPrompt
    /\ sent = NoPrompt

\* buildSystemPrompt(sampleOntology, currentDate, fewShot, knowledgeBase)
BuildSystemPrompt ==
    /\ ~built.done
    /\ built' = [done |-> TRUE,
                 system |-> buildSystemPrompt(sampleOntology,
                                Member(vOptions, "currentDate"),
                                Member(vOptions, "fewShot"),
                                Member(vOptions, "knowledgeBase"), vToday),
                 user |-> <<>>]
    /\ UNCHANGED <<adapters, written, callVars, harnessVars, checkVars, vProp, auto,
                   vDefaults, vOptions, vToday, sent>>

NextPrompt == BuildSystemPrompt

SpecPrompt == InitPrompt /\ [][NextPrompt]_vars

(***************************************************************************)
(* The client harness: a GavagaiClient with default options builds a       *)
(* prompt for a call, and interprets with the same options through the     *)
(* adapter registered for its provider.                                    *)
(***************************************************************************)
\* The defaultOptions the client is constructed with, or none.
ClientDefaults ==
    {Undef} \cup
    { Present(Obj([fewShot |-> f, currentDate |-> d, knowledgeBase |-> k])) :
        f \in {Undef, Arr(<<Obj([input |-> Str("example"), output |-> EmptyObject])>>)},
        d \in {Undef, Str("2024-01-17")},
        k \in {Undef, Obj([context |-> Obj([userLocation |-> Str("NYC")])]),
               Obj([context |-> Obj([currentDate |-> Str("2024-01-16"),
                                     userLocation |-> Str("NYC")]),
                    knowledge |-> Obj([businessRules |-> Arr(<<Str("Review all")>>)])])} }

\* The options of a call: none, typed options, and options that name a key
\* and give undefined for it.
CallOptions ==
    {Undef, Obj([currentDate |-> Undef]), Obj([knowledgeBase |-> Undef]),
     Obj([debug |-> Bool(TRUE)])} \cup OptionSets

InitClient ==
    /\ adapters = <<[id |-> "mock", adapter |-> "mock1"]>>
    /\ written = [id \in Providers |-> IF id = "mock" THEN "mock1" ELSE Undefined]
    /\ pc = [c \in CallIds |-> "idle"]
    /\ asked = [c \in CallIds |-> "none"]
    /\ bound = [c \in CallIds |-> Undefined]
    /\ settled = [c \in CallIds |-> NoOutcome]
    /\ result = [c \in CallIds |-> Pending]
    /\ trace = [c \in CallIds |-> <<>>]
    /\ raw = <<>>
    /\ extracted = NotExtracted
    /\ NoChecks
    /\ vProp = Undef
    /\ auto = NotAsked
    /\ vDefaults \in ClientDefaults
    /\ vOptions \in CallOptions
    /\ vToday \in {"2024-03-01", "2024-03-02"}
    /\ built = NoPrompt
    /\ sent = NoPrompt

\* client.buildPrompt(input, opts)
ClientBuildPrompt ==
    /\ ~built.done
    /\ built' = PromptFor("plain", sampleOntology,
                          buildPromptMergedOptions(vDefaults, vOptions), vToday)
    /\ UNCHANGED <<adapters, written, callVars, harnessVars, checkVars, vProp, auto,
                   vDefaults, vOptions, vToday, sent>>

\* client.interpret(input, opts) up to its await: the options are merged,
\* interpret finds the adapter, builds the prompt and calls complete() with it.
ClientInterpret ==
    /\ pc["c1"] = "idle"
    /\ pc' = [pc EXCEPT !["c1"] = Start("plain", "mock").pc]
    /\ asked' = [asked EXCEPT !["c1"] = "mock"]
    /\ bound' = [bound EXCEPT !["c1"] = Start("plain", "mock").bound]
    /\ result' = [result EXCEPT !["c1"] = Start("plain", "mock").result]
    /\ trace' = [trace EXCEPT !["c1"] = Start("plain", "mock").trace]
    /\ sent' = IF Start("plain", "mock").pc = "awaiting"
               THEN PromptFor("plain", sampleOntology,
                              interpretMergedOptions(vDefaults, vOptions), vToday)
               ELSE sent
    /\ UNCHANGED <<adapters, written, settled, harnessVars, checkVars, vProp, auto,
                   vDefaults, vOptions, vToday, built>>

NextClient == ClientBuildPrompt \/ ClientInterpret

SpecClient == InitClient /\ [][NextClient]_vars

(***************************************************************************)
(* JSON extraction as its contract words it, by positions in the text      *)
(***************************************************************************)
\* The text holds a fenced block: an opening ``` and a later closing ```.
HasFencedBlock(s) ==
    \E i, j \in 1..Len(s) : FenceAt(s, i) /\ FenceAt(s, j) /\ j >= i + 3

BlockOpen(s) ==
    Min({i \in 1..Len(s) : FenceAt(s, i) /\ \E j \in (i + 3)..Len(s) : FenceAt(s, j)})

BlockClose(s) == Min({j \in (BlockOpen(s) + 3)..Len(s) : FenceAt(s, j)})

\* What stands between the fences of the first block, the tag json dropped.
BlockInterior(s) ==
    LET inside == SubSeq(s, BlockOpen(s) + 3, BlockClose(s) - 1)
    IN  IF Len(inside) >= 4 /\ SubSeq(inside, 1, 4) = <<"j", "s", "o", "n">>
        THEN SubSeq(inside, 5, Len(inside))
        ELSE inside

\* The text holds a "{" with a "}" somewhere after it.
HasBraceSpan(s) ==
    \E i, j \in 1..Len(s) : i < j /\ s[i] = "{" /\ s[j] = "}"

\* From the first "{" of the text to its last "}".
BraceSpan(s) ==
    SubSeq(s, Min({i \in 1..Len(s) : s[i] = "{"}), Max({j \in 1..Len(s) : s[j] = "}"}))

Count(s, ch) == Cardinality({i \in 1..Len(s) : s[i] = ch})

(***************************************************************************)
(* C8..C10: extractJson                                                    *)
(***************************************************************************)
\* C8 (as claimed): for every text that holds a fenced block, extractJson
\* returns the trimmed interior of the first block, an empty or blank
\* interior included.
C8_FencedBlockAlwaysWins ==
    (extracted.done /\ HasFencedBlock(raw))
        => extracted.json = Trim(BlockInterior(raw))

\* C9: for every text without a fenced block that holds a "{" followed later
\* by a "}", extractJson returns exactly the text from the first "{" to the
\* last "}", both included.
C9_BraceSpanGreedy ==
    (extracted.done /\ ~HasFencedBlock(raw) /\ HasBraceSpan(raw))
        => extracted.json = BraceSpan(raw)

\* C9's case: prose around the span and a "}" inside it (a lazy or
\* depth-matching scan would stop early).
C9_Witness ==
    /\ extracted.done
    /\ ~HasFencedBlock(raw)
    /\ HasBraceSpan(raw)
    /\ Count(raw, "}") >= 2
    /\ Len(BraceSpan(raw)) < Len(raw)
    /\ extracted.json = BraceSpan(raw)

\* C10: a text with neither a fenced block nor a brace span comes back
\* trimmed and otherwise unchanged; and the rules apply in the order fenced
\* block, brace span, raw text: a block with something in it wins over a
\* brace span, and a brace span wins over the trimmed text.
C10_FallbackOrder ==
    extracted.done =>
        /\ (~HasFencedBlock(raw) /\ ~HasBraceSpan(raw)) => extracted.json = Trim(raw)
        /\ (HasFencedBlock(raw) /\ Trim(BlockInterior(raw)) # <<>>)
               => extracted.json = Trim(BlockInterior(raw))
        /\ (~HasFencedBlock(raw) /\ HasBraceSpan(raw)) => extracted.json = BraceSpan(raw)

\* C10's case: blanks at both ends, a "}" before a "{" (no span), no block.
C10_Witness ==
    /\ extracted.done
    /\ ~HasFencedBlock(raw)
    /\ ~HasBraceSpan(raw)
    /\ Count(raw, "{") >= 1 /\ Count(raw, "}") >= 1
    /\ Len(raw) >= 4
    /\ raw[1] = " " /\ raw[Len(raw)] = " "
    /\ extracted.json = SubSeq(raw, 2, Len(raw) - 1)

(***************************************************************************)
(* C1..C7: interpret                                                       *)
(***************************************************************************)
Range(f) == {f[i] : i \in DOMAIN f}

EndsWith(s, t) ==
    /\ Len(s) >= Len(t)
    /\ SubSeq(s, Len(s) - Len(t) + 1, Len(s)) = t

StepOrder ==
    <<"hasAdapter", "getAdapter", "buildPrompt", "complete", "extractJson",
      "parseResponse">>

IsPrefix(s, t) == Len(s) <= Len(t) /\ SubSeq(t, 1, Len(s)) = s

Failed(c) == pc[c] = "done" /\ result[c].status = "rejected"

\* C1 (as claimed): whatever complete() raises, a GavagaiException of the
\* adapter's own included, interpret fails with a new GavagaiException of
\* code VALIDATION_FAILED whose message carries the original message; the
\* adapter's error object and code never reach the caller.
C1_EveryFailureWrapped ==
    \A c \in CallIds :
        (pc[c] = "done" /\ settled[c].kind = "throw") =>
            /\ result[c].status = "rejected"
            /\ result[c].error.type = "GavagaiException"
            /\ result[c].error.code = "VALIDATION_FAILED"
            /\ EndsWith(result[c].error.message, settled[c].error.message)
            /\ result[c].error # settled[c].error

\* C1 (amended): a failure of complete() that is no GavagaiException is
\* re-wrapped as a GavagaiException of code VALIDATION_FAILED whose message
\* is "LLM invocation failed: " and then the failure's message (String(e)
\* for a value that is no Error) and whose context.originalError is
\* String(e); a GavagaiException raised by the adapter is rethrown as it is.
C1_ForeignFailuresWrapped ==
    \A c \in CallIds :
        (pc[c] = "done" /\ settled[c].kind = "throw") =>
            LET e == settled[c].error
                r == result[c]
            IN  /\ r.status = "rejected"
                /\ e.type = "GavagaiException" => r.error = e
                /\ e.type # "GavagaiException" =>
                       /\ r.error.type = "GavagaiException"
                       /\ r.error.code = "VALIDATION_FAILED"
                       /\ r.error.message =
                              <<"LLM invocation failed: ">>
                                  \o (IF e.type \in ErrorClasses THEN e.message
                                      ELSE IF e.type = "string" THEN e.message
                                      ELSE <<"[object Object]">>)
                       /\ r.error.context.key = "originalError"
                       /\ r.error.context.value = StringOf(e)

\* C1's case: one call whose adapter threw a plain Error and was wrapped,
\* another whose adapter threw its own UNPARSEABLE GavagaiException.
C1_Witness ==
    \E c, d \in CallIds :
        /\ pc[c] = "done" /\ pc[d] = "done"
        /\ settled[c].kind = "throw" /\ settled[c].error.type = "Error"
        /\ result[c].error.code = "VALIDATION_FAILED"
        /\ settled[d].kind = "throw" /\ settled[d].error.type = "GavagaiException"
        /\ result[d].error.code = "UNPARSEABLE"

\* C2: a call of interpret for a provider without a registered adapter ends
\* at once, rejected with a GavagaiException of code VALIDATION_FAILED whose
\* context.provider is the provider asked for, and invokes no complete().
C2_NoAdapterNoInvocation ==
    [][\A c \in CallIds :
          (pc[c] = "idle" /\ pc'[c] # "idle" /\ ~MapHas(adapters, asked'[c])) =>
              /\ pc'[c] = "done"
              /\ result'[c].status = "rejected"
              /\ result'[c].error.type = "GavagaiException"
              /\ result'[c].error.code = "VALIDATION_FAILED"
              /\ result'[c].error.context = Context("provider", <<asked'[c]>>)
              /\ "complete" \notin Range(trace'[c])
              /\ bound'[c] = Undefined
              /\ settled'[c] = NoOutcome]_vars

\* C2's case: a call for "mock" was turned away while the registry held
\* an adapter (for another provider).
C2_Witness ==
    \E c \in CallIds :
        /\ Failed(c)
        /\ asked[c] = "mock"
        /\ trace[c] = <<"hasAdapter">>
        /\ result[c].error.context = Context("provider", <<"mock">>)
        /\ getProviderIds = <<"anthropic">>

\* C3: when the adapter returned a text whose extraction does not parse,
\* interpret fails with a GavagaiException of code UNPARSEABLE whose
\* context.rawResponse is the text the adapter returned.
C3_UnparseableCarriesRawText ==
    \A c \in CallIds :
        (/\ pc[c] = "done"
         /\ settled[c].kind = "text"
         /\ parseResponse(extractJson(settled[c].text)).threw) =>
            /\ result[c].status = "rejected"
            /\ result[c].error.type = "GavagaiException"
            /\ result[c].error.code = "UNPARSEABLE"
            /\ result[c].error.context = Context("rawResponse", settled[c].text)

\* C3's case: the reply wraps a schema-violating document in prose, so the
\* extracted span differs from the reply.
C3_Witness ==
    \E c \in CallIds :
        /\ Failed(c)
        /\ settled[c] = Returned(InProse(Document("M")))
        /\ extractJson(settled[c].text) = Document("M")
        /\ result[c].error.code = "UNPARSEABLE"

\* C4 (as claimed): every failing interpret call rejects with a
\* GavagaiException that carries a code and a structured context.
C4_OnlyGavagaiExceptions ==
    \A c \in CallIds :
        Failed(c) =>
            /\ result[c].error.type = "GavagaiException"
            /\ result[c].error.code # "none"
            /\ result[c].error.context # NoContext

\* C5: the steps of a call run in order, each at most once (complete() and
\* parseResponse in particular); a failure ends the call with one error and
\* no later step; after a failed invocation nothing is extracted or parsed.
C5_OneAttemptPerStep ==
    \A c \in CallIds :
        /\ IsPrefix(trace[c], StepOrder)
        /\ Cardinality({i \in 1..Len(trace[c]) : trace[c][i] = "complete"}) <= 1
        /\ Cardinality({i \in 1..Len(trace[c]) : trace[c][i] = "parseResponse"}) <= 1
        /\ pc[c] # "done" => result[c] = Pending
        /\ pc[c] = "done" => result[c].status \in {"fulfilled", "rejected"}
        /\ (Failed(c) /\ settled[c].kind = "throw") =>
               trace[c] = SubSeq(StepOrder, 1, 4)
        /\ (Failed(c) /\ settled[c].kind = "none") =>
               "complete" \notin Range(trace[c])
        /\ (pc[c] = "done" /\ result[c].status = "fulfilled") => trace[c] = StepOrder

\* C5's case: one call failed in its invocation, one in its parse.
C5_Witness ==
    \E c, d \in CallIds :
        /\ Failed(c) /\ settled[c].kind = "throw"
        /\ Failed(d) /\ settled[d].kind = "text"
        /\ trace[d] = StepOrder

SchemaKeys ==
    {"propositions", "alternative_propositions", "unresolved", "new_entities",
     "errors", "meta", "answer"}

\* The documents that satisfy the schema.
ValidDocs == {"V", "U", "E", "X"}

\* C6: a reply that carries a schema-valid document, bare, in prose or in a
\* code block, is returned as the schema's output for that document, also
\* when its operation is no verb of the ontology or its originalRaw is
\* empty: no constraint validation takes place.
C6_SchemaValidReturned ==
    \A c \in CallIds :
        \A b \in ValidDocs :
            (/\ pc[c] = "done"
             /\ settled[c].kind = "text"
             /\ settled[c].text \in {Bare(Document(b)), InProse(Document(b)),
                                     InCodeBlock(Document(b))}) =>
                result[c] = Fulfilled(Pick(DocValue(b), SchemaKeys))

\* C6's case: replies with an unknown operation and with an empty
\* originalRaw were returned.
C6_Witness ==
    \E c, d \in CallIds :
        /\ pc[c] = "done" /\ settled[c] = Returned(InCodeBlock(Document("U")))
        /\ result[c].status = "fulfilled"
        /\ result[c].value.v["propositions"].v[1].v["operation"].v = "UnknownOperation"
        /\ pc[d] = "done" /\ settled[d] = Returned(InProse(Document("E")))
        /\ result[d].status = "fulfilled"
        /\ result[d].value.v["propositions"].v[1].v["record"].v["originalRaw"].v = ""

C11_ParsersAgree ==
    /\ safe.done => ~safe.threw
    /\ strict.done =>
           (strict.threw <=> (~JSONParse(wire).ok
                                 \/ ~GavagaiResponseSchema(JSONParse(wire).value).ok))
    /\ (strict.done /\ strict.threw) =>
           strict.error = (IF JSONParse(wire).ok THEN ZodError ELSE SyntaxError)
    /\ (strict.done /\ safe.done) =>
           /\ strict.threw <=> safe.value = Null
           /\ ~strict.threw => safe.value = strict.value

\* C11's case: a text cut short made parseResponse throw a SyntaxError and
\* safeParseResponse return null.
C11_Witness ==
    /\ strict.done /\ safe.done
    /\ wire # <<>> /\ wire \o <<"}">> = JSONStringify(vResponse)
    /\ strict.threw /\ strict.error = SyntaxError
    /\ ~safe.threw /\ safe.value = Null

\* A value as the wire format can carry it: properties that are undefined
\* are not there, undefined in an array is null.
RECURSIVE Defined(_)
Defined(x) ==
    CASE x.t = "object" ->
             Obj([k \in {j \in DOMAIN x.v : x.v[j].t # "undefined"} |-> Defined(x.v[k])])
      [] x.t = "array" ->
             Arr([i \in 1..Len(x.v) |->
                     IF x.v[i].t = "undefined" THEN Null ELSE Defined(x.v[i])])
      [] OTHER -> x

PropositionLists == {"propositions", "alternative_propositions"}

\* A response all of whose keys the schema knows, with nothing left unset.
Exact(r) ==
    /\ Defined(r) = r
    /\ ~Has(r, "model")
    /\ \A k \in PropositionLists : \A i \in 1..Len(Elems(Member(r, k))) :
           r.v[k].v[i] # RichProp

\* C12: for every schema-valid response V, parseResponse(JSON.stringify(V))
\* succeeds and equals V on all defined fields: operation, needs_review and
\* the whole record of every proposition come back as they were, an
\* ambiguity's alternatives come back as they were or as [] when V had none,
\* the result is what the schema makes of V, and it is V itself when V has
\* no unknown key and nothing unset.  Writing and parsing the result once
\* more gives the same result.
C12_RoundTrip ==
    /\ (/\ strict.done
        /\ wire = JSONStringify(vResponse)
        /\ GavagaiResponseSchema(vResponse).ok) =>
           /\ ~strict.threw
           /\ strict.value = Defined(GavagaiResponseSchema(vResponse).value)
           /\ Exact(vResponse) => strict.value = vResponse
           /\ \A k \in PropositionLists : \A i \in 1..Len(vResponse.v[k].v) :
                  LET p == vResponse.v[k].v[i]
                      q == Elems(Member(strict.value, k))[i]
                  IN  /\ Member(q, "operation") = p.v["operation"]
                      /\ Member(q, "needs_review") = p.v["needs_review"]
                      /\ Member(q, "record") = Defined(p.v["record"])
                      /\ Member(q, "items") = Defined(Member(p, "items"))
                      /\ \A j \in 1..Len(Elems(Member(p, "ambiguities"))) :
                             Member(Elems(Member(q, "ambiguities"))[j], "alternatives")
                                 = (IF Has(p.v["ambiguities"].v[j], "alternatives")
                                    THEN p.v["ambiguities"].v[j].v["alternatives"]
                                    ELSE Arr(<<>>))
    /\ again.done => (~again.threw /\ again.value = strict.value)

\* C12's case: a response with domain fields, an unset optional and an
\* ambiguity without alternatives went through the wire format twice.
C12_Witness ==
    /\ strict.done /\ ~strict.threw /\ again.done
    /\ vResponse = ResponseOf(<<RichProp>>, <<GoodProp>>)
    /\ wire = JSONStringify(vResponse)
    /\ strict.value # vResponse
    /\ strict.value.v["propositions"].v[1].v["ambiguities"].v[1].v["alternatives"] = Arr(<<>>)
    /\ strict.value.v["propositions"].v[1].v["record"] = RichProp.v["record"]
    /\ again.value = strict.value

RequiredArrays ==
    {"propositions", "alternative_propositions", "unresolved", "new_entities", "errors"}

\* C13 (as claimed): for every response object that lacks one of the five
\* top-level arrays, validate returns a result that is not valid and holds at
\* least one schema error.
C13_MissingArrayReported ==
    (/\ report.done
     /\ vResponse.t = "object"
     /\ \E k \in RequiredArrays : ~Has(vResponse, k)) =>
        /\ ~report.threw
        /\ ~report.result.valid
        /\ Len(report.result.schemaErrors) >= 1

\* meta.inferredIntent of a value, Undef where there is none.
IntentOf(r) == Member(Member(r, "meta"), "inferredIntent")

Closed(x) == x.t = "string" /\ x.v \in InferredIntents

\* C14: a text is accepted by the schema only if its meta.inferredIntent is
\* exactly "action", "query" or "mixed": with any other value, or without
\* meta or inferredIntent, parseResponse throws a ZodError and
\* safeParseResponse returns null; what is accepted carries one of the three.
C14_ClosedIntent ==
    /\ (strict.done /\ JSONParse(wire).ok /\ ~Closed(IntentOf(JSONParse(wire).value))) =>
           (strict.threw /\ strict.error = ZodError)
    /\ (safe.done /\ JSONParse(wire).ok /\ ~Closed(IntentOf(JSONParse(wire).value))) =>
           safe.value = Null
    /\ (strict.done /\ ~strict.threw) => Closed(IntentOf(strict.value))

\* C14's case: a response that is right but for the letter case of its
\* intent was refused.
C14_Witness ==
    /\ strict.done /\ safe.done
    /\ vResponse = Deviate("intent Action", ResponseOf(<<GoodProp>>, <<>>))
    /\ wire = JSONStringify(vResponse)
    /\ strict.threw /\ strict.error = ZodError
    /\ safe.value = Null

\* C15: in every accepted text, the record of every proposition (of both
\* lists) and the context of every error come out of parseResponse exactly
\* as JSON.parse read them, every extra key and value included.
C15_PassThrough ==
    (strict.done /\ ~strict.threw) =>
        LET given == JSONParse(wire).value
        IN  /\ \A k \in PropositionLists : \A i \in 1..Len(given.v[k].v) :
                   Member(Elems(Member(strict.value, k))[i], "record")
                       = given.v[k].v[i].v["record"]
            /\ Len(Elems(Member(strict.value, "errors"))) = Len(given.v["errors"].v)
            /\ \A i \in 1..Len(given.v["errors"].v) :
                   Member(strict.value.v["errors"].v[i], "context")
                       = Member(given.v["errors"].v[i], "context")

\* C15's case: domain fields on a record (a number, an array, an object)
\* and a nested error context are in the parsed output.
C15_Witness ==
    /\ strict.done /\ ~strict.threw
    /\ vResponse = Deviate("error with context", ResponseOf(<<RichProp>>, <<>>))
    /\ wire = JSONStringify(vResponse)
    /\ strict.value.v["propositions"].v[1].v["record"].v["payee"]
           = Obj([name |-> Str("Starbucks")])
    /\ strict.value.v["propositions"].v[1].v["record"].v["amount"] = Num("12.5")
    /\ strict.value.v["errors"].v[1].v["context"].v["detail"]
           = Obj([amount |-> Num("12.5"), tags |-> Arr(<<Bool(FALSE)>>)])

(***************************************************************************)
(* C16..C20: validate                                                      *)
(***************************************************************************)
\* propositions ++ alternative_propositions of a response that has both.
Concatenated(r) == r.v["propositions"].v \o r.v["alternative_propositions"].v

IsVerb(x, verbs) == x.t = "string" /\ x.v \in Range(verbs)

\* The constraint errors of the last validate that carry the given code.
ErrorsOf(code) ==
    SelectSeq(report.result.constraintErrors, LAMBDA e : e.code = code)

\* C16: when validate returns, its UNKNOWN_OPERATION errors are, one for one
\* and in the same order, the propositions of propositions ++
\* alternative_propositions whose operation is no key of ontology.verbs;
\* each names that operation and the whole list of verbs.
C16_UnknownOperations ==
    (report.done /\ ~report.threw) =>
        LET offenders == SelectSeq(Concatenated(vResponse),
                             LAMBDA p : ~IsVerb(Member(p, "operation"), vOntology.verbs))
            errors == ErrorsOf("UNKNOWN_OPERATION")
        IN  /\ Len(errors) = Len(offenders)
            /\ \A i \in 1..Len(errors) :
                   /\ errors[i].context.operation = offenders[i].v["operation"]
                   /\ errors[i].context.allowedVerbs = vOntology.verbs
                   /\ errors[i].message[2] = offenders[i].v["operation"].v

\* C16's case: unknown operations in both lists around a known one.
C16_Witness ==
    /\ report.done /\ ~report.threw
    /\ vResponse = ResponseOf(<<UnknownProp, GoodProp>>, <<RichProp>>)
    /\ vOntology = Ontology(<<"InsertTransaction">>)
    /\ Len(ErrorsOf("UNKNOWN_OPERATION")) = 2
    /\ ErrorsOf("UNKNOWN_OPERATION")[1].context.operation = Str("UnknownOperation")
    /\ ErrorsOf("UNKNOWN_OPERATION")[2].context.operation = Str("Query")

\* record.originalRaw of a proposition, Undef where there is none.
OriginalRawOf(p) == Member(Member(p, "record"), "originalRaw")

\* How many VALIDATION_FAILED errors of the last validate name index n.
NamedAt(n) ==
    Cardinality({j \in 1..Len(report.result.constraintErrors) :
                    /\ report.result.constraintErrors[j].code = "VALIDATION_FAILED"
                    /\ report.result.constraintErrors[j].context.propositionIndex = n})

\* C17: when validate returns, every proposition of propositions ++
\* alternative_propositions whose record.originalRaw is the empty string has
\* exactly one VALIDATION_FAILED error naming its zero-based position in the
\* concatenated list, one whose originalRaw is a non-empty string has none,
\* and the errors come in the order of the positions.
C17_OriginalRawPreserved ==
    (report.done /\ ~report.threw) =>
        LET all == Concatenated(vResponse)
            errors == ErrorsOf("VALIDATION_FAILED")
        IN  /\ \A i \in 1..Len(all) :
                   /\ OriginalRawOf(all[i]) = Str("") => NamedAt(i - 1) = 1
                   /\ (OriginalRawOf(all[i]).t = "string" /\ OriginalRawOf(all[i]) # Str(""))
                          => NamedAt(i - 1) = 0
            /\ \A j \in 1..Len(errors) :
                   /\ errors[j].context.propositionIndex \in 0..(Len(all) - 1)
                   /\ j > 1 => errors[j - 1].context.propositionIndex
                                   < errors[j].context.propositionIndex

\* C17's case: the second alternative, after one proposition, has an empty
\* originalRaw and is named by index 1 + 1.
C17_Witness ==
    /\ report.done /\ ~report.threw
    /\ vResponse = ResponseOf(<<GoodProp>>, <<GoodProp, EmptyRawProp>>)
    /\ Len(ErrorsOf("VALIDATION_FAILED")) = 1
    /\ ErrorsOf("VALIDATION_FAILED")[1].context.propositionIndex = 2

\* C18: in every result validate returns, valid is true exactly when there
\* are no schema errors and no constraint errors.
C18_ValidIffNoErrors ==
    (report.done /\ ~report.threw) =>
        (report.result.valid <=>
            (Len(report.result.schemaErrors) = 0 /\ Len(report.result.constraintErrors) = 0))

\* C18's case: the valid response of the tests is valid; (the states with
\* schema errors only, constraint errors only, and both are reached too).
C18_Witness ==
    /\ report.done /\ ~report.threw
    /\ vResponse = ResponseOf(<<GoodProp>>, <<>>)
    /\ vOntology = Ontology(<<"InsertTransaction", "Query">>)
    /\ report.result.valid
    /\ report.result.schemaErrors = <<>>
    /\ report.result.constraintErrors = <<>>

\* C19 (as claimed): for every response with schema errors, validate does
\* not raise: it returns a result that reports the schema errors.
C19_AdditiveNeverRaises ==
    (report.done /\ ~GavagaiResponseSchema(vResponse).ok) =>
        /\ ~report.threw
        /\ Len(report.result.schemaErrors) >= 1

\* The path of the schema error for originalRaw of proposition i of list k.
RawPath(k, i) == <<k, ".", IndexNames[i], ".", "record", ".", "originalRaw">>

SchemaErrorAt(path) ==
    \E j \in 1..Len(report.result.schemaErrors) :
        report.result.schemaErrors[j].path = path

\* Position in the concatenated list of proposition i of list k.
PositionOf(r, k, i) ==
    IF k = "propositions" THEN i ELSE Len(r.v["propositions"].v) + i

\* The propositions whose only possible fault is a missing originalRaw.
Auditable == PropKinds \ {NoRecordProp}

\* C20 (as claimed): a record without originalRaw is no schema error: a
\* response whose propositions are right but for a missing originalRaw gets
\* no schema error from validate, only the constraint error.
C20_AbsenceNotSchemaError ==
    (/\ report.done /\ ~report.threw
     /\ vResponse \in ListResponses
     /\ \A i \in 1..Len(Concatenated(vResponse)) : Concatenated(vResponse)[i] \in Auditable) =>
        report.result.schemaErrors = <<>>

\* C20 (amended): when validate returns, a proposition whose record has no
\* originalRaw is reported twice, as the schema error "Required" at
\* <list>.<i>.record.originalRaw and as the VALIDATION_FAILED constraint
\* error naming its position; an empty originalRaw is reported as the
\* constraint error only.
C20_AbsenceIsBoth ==
    (report.done /\ ~report.threw) =>
        \A k \in PropositionLists : \A i \in 1..Len(vResponse.v[k].v) :
            LET p == vResponse.v[k].v[i]
                n == PositionOf(vResponse, k, i) - 1
            IN  /\ (Member(p, "record").t = "object" /\ ~Has(p.v["record"], "originalRaw")) =>
                       /\ SchemaErrorAt(RawPath(k, i))
                       /\ ~report.result.valid
                       /\ NamedAt(n) = 1
                /\ OriginalRawOf(p) = Str("") =>
                       /\ ~SchemaErrorAt(RawPath(k, i))
                       /\ NamedAt(n) = 1

\* C20's case: one record without originalRaw, one with an empty one.
C20_Witness ==
    /\ report.done /\ ~report.threw
    /\ vResponse = ResponseOf(<<NoRawProp>>, <<EmptyRawProp>>)
    /\ report.result.schemaErrors =
           <<[path |-> RawPath("propositions", 1), message |-> <<"Required">>]>>
    /\ Len(ErrorsOf("VALIDATION_FAILED")) = 2

(***************************************************************************)
(* C21..C22: the proposition schema and shouldAutoExecute                  *)
(***************************************************************************)
\* The record of p is an object that has no originalRaw.
LacksOriginalRaw(p) ==
    Member(p, "record").t = "object" /\ ~Has(p.v["record"], "originalRaw")

\* C21: IntentionPropositionSchema rejects every proposition whose record
\* has no originalRaw (parsing a response that holds one throws the schema
\* error), and a proposition that is right but for the text of its
\* originalRaw passes, the empty text included (a response made of such
\* propositions parses).
C21_OriginalRawRequired ==
    (strict.done /\ wire = JSONStringify(vResponse) /\ vResponse \in ListResponses) =>
        /\ \A i \in 1..Len(Concatenated(vResponse)) :
               LET p == Concatenated(vResponse)[i]
               IN  /\ LacksOriginalRaw(p) =>
                          /\ ~IntentionPropositionSchema(p).ok
                          /\ strict.threw /\ strict.error = ZodError
                   /\ OriginalRawOf(p).t = "string" => IntentionPropositionSchema(p).ok
        /\ (\A i \in 1..Len(Concatenated(vResponse)) :
               OriginalRawOf(Concatenated(vResponse)[i]).t = "string") => ~strict.threw

\* C21's case: a response with an empty originalRaw and a missing one was
\* parsed, and the parse threw on the second only.
C21_Witness ==
    /\ strict.done /\ strict.threw
    /\ vResponse = ResponseOf(<<EmptyRawProp>>, <<NoRawProp>>)
    /\ wire = JSONStringify(vResponse)
    /\ GavagaiResponseSchema(vResponse).issues =
           <<Issue(<<"alternative_propositions", "0", "record", "originalRaw">>,
                   <<"Required">>)>>

\* C22: shouldAutoExecute(p) is true exactly when needs_review is false and
\* ambiguities is absent or empty; it gives the same for p cut down to these
\* two fields, and the call leaves p as it was.
C22_AutoExecuteTruthTable ==
    [][(~auto.done /\ auto'.done) =>
           /\ auto'.value <=>
                  /\ Member(vProp, "needs_review") = Bool(FALSE)
                  /\ \/ ~Has(vProp, "ambiguities")
                     \/ Member(vProp, "ambiguities") = Arr(<<>>)
           /\ auto'.value <=> shouldAutoExecute(Pick(vProp, {"needs_review", "ambiguities"}))
           /\ vProp' = vProp]_vars

\* C22's case: a proposition that needs no review but has an ambiguity was
\* asked about, and is not to be executed.
C22_Witness ==
    /\ auto.done /\ ~auto.value
    /\ Member(vProp, "needs_review") = Bool(FALSE)
    /\ Len(Elems(Member(vProp, "ambiguities"))) = 1
    /\ Has(vProp, "items") /\ Has(vProp, "reasoning")

(***************************************************************************)
(* C23..C28: the registry and the calls that read it                       *)
(***************************************************************************)
\* C23: after any sequence of registry operations getAdapter(id) returns
\* the adapter of the last registerAdapter call for id that no
\* unregisterAdapter(id) followed, and undefined if there is none; a
\* registerAdapter call changes what getAdapter returns for no other id.
C23_LastWriteWins ==
    /\ []\A id \in Providers : getAdapter(id) = written[id]
    /\ [][\A a \in Adapters :
              registerAdapter(a) =>
                  \A id \in Providers \ {providerId(a)} : getAdapter(id)' = getAdapter(id)]_vars

\* C23's case: "mock" was registered as mock1 (a call still holds it), then
\* registered again as mock2, which is what getAdapter now returns; the
\* entry of "anthropic" is as it was.
C23_Witness ==
    /\ pc["c1"] = "awaiting" /\ bound["c1"] = "mock1"
    /\ getAdapter("mock") = "mock2"
    /\ getAdapter("anthropic") = "anthropic1"
    /\ getAdapter("ghost") = Undefined
    /\ getProviderIds = <<"mock", "anthropic">>

\* C24: unregisterAdapter(id) removes the entry of id and no other: after
\* it hasAdapter(id) is false, every other id has the adapter it had, in the
\* same order, and when id was not registered the registry is left as it is
\* (the call has no way to raise: it returns what Map.delete does).
C24_UnregisterExactly ==
    /\ []\A id \in Providers : ~hasAdapter(id) => MapDelete(adapters, id) = adapters
    /\ [][\A id \in Providers :
           unregisterAdapter(id) =>
               /\ ~hasAdapter(id)'
               /\ \A other \in Providers \ {id} :
                      /\ hasAdapter(other)' <=> hasAdapter(other)
                      /\ getAdapter(other)' = getAdapter(other)
               /\ Len(adapters') = Len(adapters) - (IF hasAdapter(id) THEN 1 ELSE 0)]_vars

\* C24's case: "anthropic" was registered after "mock" and "mock" was then
\* unregistered while a call held its adapter; "anthropic" is still there.
C24_Witness ==
    /\ pc["c1"] = "awaiting" /\ bound["c1"] = "mock2"
    /\ pc["c2"] = "awaiting" /\ bound["c2"] = "anthropic1"
    /\ ~hasAdapter("mock")
    /\ getAdapter("anthropic") = "anthropic1"
    /\ getProviderIds = <<"anthropic">>

\* C25: the registry is changed by registerAdapter and unregisterAdapter
\* only: every step of an interpret call (its start, the settling of its
\* invocation, its resumption, whether it ends well or not) leaves the
\* registry as it is, and a call started for a provider that is registered
\* does not end with the no-adapter error.
C25_RegistryPersists ==
    [][/\ (pc' # pc) => adapters' = adapters
       /\ (adapters' # adapters) =>
              \/ \E a \in Adapters : registerAdapter(a)
              \/ \E id \in Providers : unregisterAdapter(id)
       /\ \A c \in CallIds :
              (pc[c] = "idle" /\ pc'[c] # "idle" /\ hasAdapter(asked'[c])) =>
                  result'[c] # Rejected(NoAdapterError(asked'[c]))]_vars

\* C25's case: one call through mock1 has ended in an error, another has
\* returned a response, and mock1 is still what "mock" gives.
C25_Witness ==
    /\ pc["c1"] = "done" /\ bound["c1"] = "mock1" /\ result["c1"].status = "rejected"
    /\ pc["c2"] = "done" /\ bound["c2"] = "mock1" /\ result["c2"].status = "fulfilled"
    /\ getAdapter("mock") = "mock1"
    /\ getProviderIds = <<"mock">>

\* C26: a call that got as far as complete() holds the adapter its provider
\* had when it started, an adapter and never undefined; the registry steps
\* taken while it is suspended change neither the adapter it holds nor its
\* end: its invocation settles as that adapter settles it, its result is
\* what interpret makes of that, and it is never the no-adapter error.
C26_BoundAtStart ==
    /\ []\A c \in CallIds :
             /\ pc[c] \in {"awaiting", "settled"} =>
                    bound[c] \in Adapters /\ providerId(bound[c]) = asked[c]
             /\ pc[c] = "settled" => settled[c] \in CompleteOutcomes(bound[c])
             /\ (pc[c] = "done" /\ bound[c] # Undefined) =>
                    /\ result[c] = Finish(settled[c]).result
                    /\ result[c] # Rejected(NoAdapterError(asked[c]))
             /\ result[c] # Rejected(InvocationError(UndefinedCall))
    /\ [][\A c \in CallIds :
              /\ (pc[c] = "idle" /\ pc'[c] = "awaiting") => bound'[c] = getAdapter(asked'[c])
              /\ pc[c] # "idle" => bound'[c] = bound[c]]_vars

\* C26's case: both calls are suspended; the provider of one has been
\* registered anew with another adapter, that of the other unregistered.
C26_Witness ==
    /\ pc["c1"] = "settled" /\ bound["c1"] = "mock1" /\ getAdapter("mock") = "mock2"
    /\ pc["c2"] = "settled" /\ bound["c2"] = "anthropic1" /\ ~hasAdapter("anthropic")
    /\ settled["c1"].kind = "text" /\ settled["c2"].kind = "text"

\* C27: whatever the interleaving and the order in which the invocations
\* settle, the end of a call that reached complete() comes from its own
\* invocation alone: a failure of the invocation gives that failure
\* (wrapped as step 3 wraps it), a reply that does not parse gives
\* UNPARSEABLE carrying that very reply, a reply that parses gives the
\* response parsed from it.
C27_CallsIsolated ==
    \A c \in CallIds :
        (pc[c] = "done" /\ bound[c] # Undefined) =>
            LET own == settled[c]
                parsed == parseResponse(extractJson(own.text))
            IN  /\ own.kind = "throw" => result[c] = Rejected(InvocationError(own.error))
                /\ (own.kind = "text" /\ parsed.threw) =>
                       /\ result[c].status = "rejected"
                       /\ result[c].error.code = "UNPARSEABLE"
                       /\ result[c].error.context = Context("rawResponse", own.text)
                /\ (own.kind = "text" /\ ~parsed.threw) =>
                       result[c] = Fulfilled(parsed.value)

\* C27's case: two calls through the same adapter have ended, the one that
\* settled with a reply that is no JSON carries that reply, the other, whose
\* invocation failed, carries that failure.
C27_Witness ==
    /\ pc["c1"] = "done" /\ pc["c2"] = "done"
    /\ bound["c1"] = "mock1" /\ bound["c2"] = "mock1"
    /\ settled["c1"] = Returned(<<"a", " ", "a">>)
    /\ result["c1"].error.context = Context("rawResponse", <<"a", " ", "a">>)
    /\ settled["c2"].kind = "throw"
    /\ result["c2"].error.context = Context("originalError", <<"Error", ": ", "API Error">>)

\* C28: after any sequence of registry operations the three views agree:
\* hasAdapter(id) iff getAdapter(id) is defined iff id is among
\* getProviderIds(); getProviderIds() names no id twice; the adapter stored
\* under id has id as its providerId.
C28_ViewsConsistent ==
    /\ \A id \in Providers :
           /\ hasAdapter(id) <=> getAdapter(id) # Undefined
           /\ hasAdapter(id) <=> \E i \in 1..Len(getProviderIds) : getProviderIds[i] = id
           /\ hasAdapter(id) => providerId(getAdapter(id)) = id
    /\ \A i, j \in 1..Len(getProviderIds) :
           getProviderIds[i] = getProviderIds[j] => i = j
    /\ \A i \in 1..Len(adapters) : providerId(adapters[i].adapter) = adapters[i].id

\* C28's case: two ids are registered, one of them for the second time.
C28_Witness ==
    /\ getProviderIds = <<"anthropic", "mock">>
    /\ hasAdapter("mock") /\ getAdapter("mock") = "mock2"
    /\ hasAdapter("anthropic") /\ ~hasAdapter("ghost")
    /\ \E c \in CallIds : bound[c] = "mock1" /\ pc[c] = "done"

(***************************************************************************)
(* C29..C30: the prompt and the client's options                           *)
(***************************************************************************)
\* The text under the heading "## Current Date" of a system prompt.
DateIn(system) ==
    system[(CHOOSE i \in 1..Len(system) : system[i] = "## Current Date") + 2]

\* C29 (as claimed): whenever knowledgeBase.context has no currentDate and
\* the currentDate parameter is given, the system prompt shows the
\* currentDate parameter.
C29_DatePriority ==
    (/\ built.done
     /\ Member(Member(Member(vOptions, "knowledgeBase"), "context"), "currentDate") = Undef
     /\ Member(vOptions, "currentDate") # Undef) =>
        DateIn(built.system) = Member(vOptions, "currentDate").v

\* Options o are the defaults d overridden by the call's options c: a key
\* the call gives has the call's value, a key it does not give has the
\* default's; the knowledge base is that of the defaults when the call gives
\* none, and else has, in each part, every key of either with the call's
\* value winning.
Overrides(o, d, c) ==
    /\ \A k \in {"fewShot", "currentDate", "debug"} :
           Member(o, k) = (IF Has(c, k) THEN c.v[k] ELSE Member(d, k))
    /\ Falsy(Member(c, "knowledgeBase")) =>
           Member(o, "knowledgeBase") = Member(d, "knowledgeBase")
    /\ ~Falsy(Member(c, "knowledgeBase")) =>
           \A part \in {"context", "knowledge"} :
               LET mine == Member(Member(c, "knowledgeBase"), part)
                   theirs == Member(Member(d, "knowledgeBase"), part)
                   both == Member(Member(o, "knowledgeBase"), part)
               IN  /\ KeysOf(both) = KeysOf(mine) \cup KeysOf(theirs)
                   /\ \A k \in KeysOf(both) :
                          Member(both, k) = (IF Has(mine, k) THEN mine.v[k] ELSE theirs.v[k])

\* C30: the options a client call works with are the defaults overridden by
\* the call's options, in buildPrompt and in interpret alike; the defaults
\* are left as they are; and the prompt client.buildPrompt returns is the
\* prompt client.interpret hands to the adapter for the same options.
C30_ClientMergesOptions ==
    /\ [](built.done => Overrides(buildPromptMergedOptions(vDefaults, vOptions),
                                  vDefaults, vOptions))
    /\ [](sent.done => Overrides(interpretMergedOptions(vDefaults, vOptions),
                                 vDefaults, vOptions))
    /\ []((built.done /\ sent.done) => built = sent)
    /\ [][vDefaults' = vDefaults]_vars

\* C30's case: defaults with a date, a location and a rule; a call that
\* gives its own date and one context key; both prompts built, showing the
\* call's date and, in the context, the call's key next to the default's.
C30_Witness ==
    /\ built.done /\ sent.done /\ built = sent
    /\ Member(vDefaults, "currentDate") = Str("2024-01-17")
    /\ Member(Member(Member(vDefaults, "knowledgeBase"), "context"), "userLocation")
           = Str("NYC")
    /\ Has(Member(vDefaults, "knowledgeBase"), "knowledge")
    /\ vOptions = Obj([currentDate |-> Str("2024-02-29"),
                       knowledgeBase |->
                           Obj([context |-> Obj([currentDate |-> Str("2024-01-15")])])])
    /\ DateIn(sent.system) = "2024-01-15"
    /\ \E i \in 1..Len(sent.system) : sent.system[i] = "NYC"
    /\ \E i \in 1..Len(sent.system) : sent.system[i] = "## Domain Knowledge"

====
